---- MODULE Spec2Model ----
(***************************************************************************)
(* Parcel lifecycle of dropollo-api: the parcel store, the status          *)
(* transition table and the operations of parcel.service.ts.               *)
(*                                                                         *)
(* Spec      : the operations executed one at a time (createParcel runs    *)
(*             its store steps without any other call in between).         *)
(* SpecConc  : several createParcel calls interleave between their         *)
(*             tracking-id lookups and their insert.                       *)
(* SpecFee   : the fee calculator called on its own.                       *)
(* SpecValidate : the fee input validation, alone and inside createParcel. *)
(* SpecTracking : tracking ids generated and validated, as characters.     *)
(* SpecQuery : the listings of QueryBuilder.ts on a stored collection.     *)
(* SpecAccess: parcels created, read and deleted, and calls on ids whose   *)
(*             parcel is gone.                                             *)
(* SpecBlock : two parcels of the same request, one blocked and unblocked. *)
(* SpecStats : getParcelStats on parcels that carry their timestamps.      *)
(* SpecHistory : the receiver's delivery history on delivered parcels.     *)
(* SpecRace  : the writing calls split into their read and their write,    *)
(*             two calls interleaving.                                     *)
(* SpecPage  : paginate and getMeta on raw page and limit values.          *)
(* SpecAssign: delivery personnel assigned to a parcel in every status.    *)
(***************************************************************************)
EXTENDS Integers, Sequences, FiniteSets, TLC

VARIABLES parcels, nextId, calls, last

vars == <<parcels, nextId, calls, last>>

(***************************************************************************)
(* Bounds of the model.                                                    *)
(***************************************************************************)
\* parcels ever inserted when the calls run one at a time (ids are never reused)
MaxParcels == 1
\* parcels ever inserted when createParcel calls interleave
MaxConcParcels == 2
\* longest statusHistory a parcel may grow to
MaxHistory == 6
\* blockParcel calls per parcel
MaxBlocks == 1
\* the clock, in days, where documents carry their timestamps
MaxTime == 8

(***************************************************************************)
(* Values.                                                                 *)
(***************************************************************************)
NoValue == "none"

REQUESTED == "requested"
APPROVED == "approved"
PICKED_UP == "picked_up"
IN_TRANSIT == "in_transit"
OUT_FOR_DELIVERY == "out_for_delivery"
DELIVERED == "delivered"
CANCELLED == "cancelled"
RETURNED == "returned"
FAILED_DELIVERY == "failed_delivery"

ParcelStatus ==
  {REQUESTED, APPROVED, PICKED_UP, IN_TRANSIT, OUT_FOR_DELIVERY, DELIVERED,
   CANCELLED, RETURNED, FAILED_DELIVERY}

\* error kinds thrown by the service (AppError status codes), and the store's
\* duplicate-key error
OK == "OK"
NOT_FOUND == "NOT_FOUND"
FORBIDDEN == "FORBIDDEN"
BAD_REQUEST == "BAD_REQUEST"
INTERNAL_SERVER_ERROR == "INTERNAL_SERVER_ERROR"
DUPLICATE_KEY == "DUPLICATE_KEY"

\* the users collection: s1 an active sender, sb a blocked sender, ad an
\* admin, rc a registered receiver
User ==
  [s1 |-> [role |-> "sender", isBlocked |-> FALSE, email |-> "s1@x.com"],
   sb |-> [role |-> "sender", isBlocked |-> TRUE, email |-> "sb@x.com"],
   ad |-> [role |-> "admin", isBlocked |-> FALSE, email |-> "ad@x.com"],
   rc |-> [role |-> "receiver", isBlocked |-> FALSE, email |-> "rc@x.com"]]

UserIds == DOMAIN User
\* ids a caller may present: the stored users and one id of no user
ActorIds == UserIds \cup {"zz"}
\* receiver emails: one of a registered user, one of nobody
Emails == {"rc@x.com", "r@x.com"}
\* the placeholder ObjectId of confirmDelivery
PlaceholderId == "000000000000000000000000"

\* the values generateTrackingId can return (date part fixed, two random parts)
TrackingIds == {"TRK-20250101-100000", "TRK-20250101-100001"}

\* weights in tenths of a kilogram: 0 and 51 kg are invalid
Weights == {0, 10, 510}
Urgencies == {"standard", "overnight"}

Procs == {"p1", "p2"}

(***************************************************************************)
(* parcel.service.ts: the transition table.                                *)
(***************************************************************************)
\* variant: a cancelled parcel may be requested again, as a returned one may
allowedTransitionsReopen ==
  [s \in ParcelStatus |->
     CASE s = REQUESTED -> {APPROVED, CANCELLED}
       [] s = APPROVED -> {PICKED_UP, CANCELLED}
       [] s = PICKED_UP -> {IN_TRANSIT, RETURNED}
       [] s = IN_TRANSIT -> {OUT_FOR_DELIVERY, FAILED_DELIVERY}
       [] s = OUT_FOR_DELIVERY -> {DELIVERED, FAILED_DELIVERY}
       [] s = DELIVERED -> {}
       [] s = CANCELLED -> {REQUESTED}
       [] s = RETURNED -> {REQUESTED}
       [] s = FAILED_DELIVERY -> {OUT_FOR_DELIVERY, RETURNED}]

\* variant: a returned parcel stays returned
allowedTransitionsReturnEnds ==
  [s \in ParcelStatus |->
     CASE s = REQUESTED -> {APPROVED, CANCELLED}
       [] s = APPROVED -> {PICKED_UP, CANCELLED}
       [] s = PICKED_UP -> {IN_TRANSIT, RETURNED}
       [] s = IN_TRANSIT -> {OUT_FOR_DELIVERY, FAILED_DELIVERY}
       [] s = OUT_FOR_DELIVERY -> {DELIVERED, FAILED_DELIVERY}
       [] s = DELIVERED -> {}
       [] s = CANCELLED -> {}
       [] s = RETURNED -> {}
       [] s = FAILED_DELIVERY -> {OUT_FOR_DELIVERY, RETURNED}]

allowedTransitions ==
  [s \in ParcelStatus |->
     CASE s = REQUESTED -> {APPROVED, CANCELLED}
       [] s = APPROVED -> {PICKED_UP, CANCELLED}
       [] s = PICKED_UP -> {IN_TRANSIT, RETURNED}
       [] s = IN_TRANSIT -> {OUT_FOR_DELIVERY, FAILED_DELIVERY}
       [] s = OUT_FOR_DELIVERY -> {DELIVERED, FAILED_DELIVERY}
       [] s = DELIVERED -> {}
       [] s = CANCELLED -> {}
       [] s = RETURNED -> {REQUESTED}
       [] s = FAILED_DELIVERY -> {OUT_FOR_DELIVERY, RETURNED}]

(***************************************************************************)
(* feeCalculator.ts.  Weights are in tenths of a kilogram, so the fee of   *)
(* 10 per kilogram is weight * 10 \div 10.                                 *)
(***************************************************************************)
urgencyMultiplierTimes2 == [standard |-> 2, express |-> 3, urgent |-> 4]

\* variant: the total is not floored at 0
calculateParcelFeeNoFloor(parcelDetails, deliveryInfo, discount, couponCode) ==
  LET baseFee == 50
      weightFee == (parcelDetails.weight * 10) \div 10
      urgencyFee ==
        (baseFee * (urgencyMultiplierTimes2[deliveryInfo.urgency] - 2)) \div 2
      subtotal == baseFee + weightFee + urgencyFee
  IN [baseFee |-> baseFee, weightFee |-> weightFee, urgencyFee |-> urgencyFee,
      totalFee |-> subtotal - discount,
      discount |-> IF discount > 0 THEN discount ELSE 0,
      couponCode |-> couponCode]

calculateParcelFee(parcelDetails, deliveryInfo, discount, couponCode) ==
  LET baseFee == 50
      weightFee == (parcelDetails.weight * 10) \div 10
      urgencyFee ==
        (baseFee * (urgencyMultiplierTimes2[deliveryInfo.urgency] - 2)) \div 2
      subtotal == baseFee + weightFee + urgencyFee
      totalFee == IF subtotal - discount > 0 THEN subtotal - discount ELSE 0
  IN [baseFee |-> baseFee, weightFee |-> weightFee, urgencyFee |-> urgencyFee,
      totalFee |-> totalFee,
      discount |-> IF discount > 0 THEN discount ELSE 0,
      couponCode |-> couponCode]

\* variant: only the first violated rule is reported
validateFeeCalculationInputFirstOnly(parcelDetails, deliveryInfo) ==
  LET e1 == IF parcelDetails.weight <= 0
            THEN <<"Weight must be greater than 0">> ELSE <<>>
      e2 == IF parcelDetails.weight > 500
            THEN <<"Weight cannot exceed 50kg">> ELSE <<>>
      e3 == IF deliveryInfo.urgency \notin {"standard", "express", "urgent"}
            THEN <<"Invalid urgency level">> ELSE <<>>
      errors == e1 \o e2 \o e3
  IN [isValid |-> Len(errors) = 0,
      errors |-> IF errors = <<>> THEN <<>> ELSE <<errors[1]>>]

validateFeeCalculationInput(parcelDetails, deliveryInfo) ==
  LET e1 == IF parcelDetails.weight <= 0
            THEN <<"Weight must be greater than 0">> ELSE <<>>
      e2 == IF parcelDetails.weight > 500
            THEN <<"Weight cannot exceed 50kg">> ELSE <<>>
      e3 == IF deliveryInfo.urgency \notin {"standard", "express", "urgent"}
            THEN <<"Invalid urgency level">> ELSE <<>>
      errors == e1 \o e2 \o e3
  IN [isValid |-> Len(errors) = 0, errors |-> errors]

(***************************************************************************)
(* The parcels collection (parcel.model.ts) and what a call reports.       *)
(***************************************************************************)
\* Parcel.findById / findOne({trackingId})
Stored == DOMAIN parcels

findByTrackingId(trackingId) ==
  {id \in Stored : parcels[id].trackingId = trackingId}

\* the outcome of the last call: what was called, with what, and its error
Outcome(op, parcelId, actor, status, flag, note, error, message) ==
  [op |-> op, parcelId |-> parcelId, actor |-> actor, status |-> status,
   flag |-> flag, note |-> note, error |-> error, message |-> message]

\* notes and messages are sequences of string pieces; an absent note is <<>>
NoNote == <<>>

IdleCall ==
  [pc |-> "idle", senderId |-> NoValue,
   receiver |-> [name |-> NoValue, email |-> NoValue],
   parcelDetails |-> [weight |-> 0], deliveryInfo |-> [urgency |-> NoValue],
   trackingId |-> NoValue, isUnique |-> FALSE, attempts |-> 0]

\* no createParcel call is between two of its store steps
NoCallInFlight == \A p \in Procs : calls[p].pc = "idle"

\* every failing call: the error is reported and the store is left alone
Throw(op, parcelId, actor, status, flag, note, error, message) ==
  /\ last' = Outcome(op, parcelId, actor, status, flag, note, error, message)
  /\ UNCHANGED <<parcels, nextId, calls>>

\* timestamps: true in the schema.  The documents carry createdAt and
\* updatedAt, in days, where the statistics read them
Timestamped(doc) == "updatedAt" \in DOMAIN doc

\* the latest time the store has recorded; the clock is past it
Latest ==
  LET times == {parcels[id].updatedAt :
                  id \in {i \in Stored : Timestamped(parcels[i])}}
  IN IF times = {} THEN 0 ELSE CHOOSE t \in times : \A u \in times : u <= t

\* Parcel.findByIdAndUpdate(parcelId, update): one atomic document update,
\* with updatedAt: new Date()
findByIdAndUpdate(parcelId, updated) ==
  IF Timestamped(updated)
  THEN \E now \in (Latest + 1)..MaxTime :
          parcels' = [parcels EXCEPT
                        ![parcelId] = [updated EXCEPT !.updatedAt = now]]
  ELSE parcels' = [parcels EXCEPT ![parcelId] = updated]

Init ==
  /\ parcels = <<>>
  /\ nextId = 1
  /\ calls = [p \in Procs |-> IdleCall]
  /\ last = Outcome("none", 0, NoValue, NoValue, FALSE, NoNote, OK, <<>>)

(***************************************************************************)
(* parcel.model.ts: schema defaults, the pre-save hook and the unique      *)
(* index on trackingId.                                                    *)
(***************************************************************************)
StatusLog(status, updatedBy, location, note) ==
  [status |-> status, updatedBy |-> updatedBy, location |-> location,
   note |-> note]

\* variant: the hook seeds nothing
preSaveNoSeed(doc) == doc

\* parcelSchema.pre('save'): a new document gets its first status log
preSave(doc) ==
  [doc EXCEPT !.statusHistory =
     Append(@, StatusLog(REQUESTED, doc.sender, NoValue,
                         <<"Parcel request created">>))]

\* the document Parcel.create builds from the given fields and the defaults
newDocument(trackingId, sender, receiver, parcelDetails, deliveryInfo, pricing, currentStatus) ==
  [trackingId |-> trackingId, sender |-> sender, receiver |-> receiver,
   parcelDetails |-> parcelDetails, deliveryInfo |-> deliveryInfo,
   pricing |-> pricing, currentStatus |-> currentStatus,
   statusHistory |-> <<>>, isBlocked |-> FALSE, isCancelled |-> FALSE,
   deliveryPersonnel |-> NoValue]

\* variant: trackingId is indexed but not unique
uniqueIndexMissing(trackingId) == FALSE

\* the unique index on trackingId: does the store refuse this insert?
uniqueIndexRejects(trackingId) == findByTrackingId(trackingId) # {}

(***************************************************************************)
(* createParcel, one action per stretch of code between two store calls.   *)
(***************************************************************************)
\* variant: the role of the sender is not looked at
senderCheckNoRole(senderId) ==
  IF senderId \notin UserIds
  THEN [error |-> NOT_FOUND, message |-> <<"Sender not found">>]
  ELSE IF User[senderId].isBlocked
  THEN [error |-> FORBIDDEN, message |-> <<"Your account is blocked">>]
  ELSE [error |-> OK, message |-> <<>>]

\* lines 49-64: User.findById and the checks on the sender
senderCheck(senderId) ==
  IF senderId \notin UserIds
  THEN [error |-> NOT_FOUND, message |-> <<"Sender not found">>]
  ELSE IF User[senderId].role # "sender"
  THEN [error |-> FORBIDDEN,
        message |-> <<"Only users with sender role can create parcels">>]
  ELSE IF User[senderId].isBlocked
  THEN [error |-> FORBIDDEN, message |-> <<"Your account is blocked">>]
  ELSE [error |-> OK, message |-> <<>>]

\* lines 49-87: the sender checks, the fee validation and the first candidate
\* (the pricing, a function of the call's data alone, is computed at the insert)
createParcelBegin(p, senderId, parcelData) ==
  /\ calls[p].pc = "idle"
  /\ LET fail(error, message) ==
           /\ last' = Outcome("createParcel", 0, senderId, NoValue, FALSE,
                              NoNote, error, message)
           /\ UNCHANGED <<parcels, nextId, calls>>
         feeValidation ==
           validateFeeCalculationInput(parcelData.parcelDetails,
                                       parcelData.deliveryInfo)
         sender == senderCheck(senderId)
     IN IF sender.error # OK
        THEN fail(sender.error, sender.message)
        ELSE IF ~feeValidation.isValid
        THEN fail(BAD_REQUEST, feeValidation.errors)
        ELSE \E candidate \in TrackingIds :
               /\ calls' = [calls EXCEPT ![p] =
                    [pc |-> "lookup", senderId |-> senderId,
                     receiver |-> parcelData.receiver,
                     parcelDetails |-> parcelData.parcelDetails,
                     deliveryInfo |-> parcelData.deliveryInfo,
                     trackingId |-> candidate, isUnique |-> FALSE,
                     attempts |-> 0]]
               /\ UNCHANGED <<parcels, nextId, last>>

\* variant: after a collision the fresh candidate is taken without a lookup
createParcelLookupNoRecheck(p) ==
  /\ calls[p].pc = "lookup"
  /\ LET c == calls[p]
         existingParcel == findByTrackingId(c.trackingId)
         isUnique == existingParcel = {}
         attempts == c.attempts + 1
     IN IF isUnique
        THEN /\ calls' = [calls EXCEPT ![p].isUnique = TRUE,
                                       ![p].attempts = attempts,
                                       ![p].pc = "insert"]
             /\ UNCHANGED <<parcels, nextId, last>>
        ELSE \E candidate \in TrackingIds :
               /\ calls' = [calls EXCEPT ![p].trackingId = candidate,
                                         ![p].isUnique = TRUE,
                                         ![p].attempts = attempts,
                                         ![p].pc = "insert"]
               /\ UNCHANGED <<parcels, nextId, last>>

\* lines 89-104: one turn of the while loop, and the check after the loop
createParcelLookup(p) ==
  /\ calls[p].pc = "lookup"
  /\ LET c == calls[p]
         existingParcel == findByTrackingId(c.trackingId)
         isUnique == existingParcel = {}
         attempts == c.attempts + 1
     IN IF isUnique
        THEN /\ calls' = [calls EXCEPT ![p].isUnique = TRUE,
                                       ![p].attempts = attempts,
                                       ![p].pc = "insert"]
             /\ UNCHANGED <<parcels, nextId, last>>
        ELSE IF attempts < 10
        THEN \E candidate \in TrackingIds :
               /\ calls' = [calls EXCEPT ![p].trackingId = candidate,
                                         ![p].attempts = attempts]
               /\ UNCHANGED <<parcels, nextId, last>>
        ELSE /\ calls' = [calls EXCEPT ![p] = IdleCall]
             /\ last' = Outcome("createParcel", 0, c.senderId, NoValue, FALSE,
                                NoNote, INTERNAL_SERVER_ERROR,
                                <<"Failed to generate unique tracking ID">>)
             /\ UNCHANGED <<parcels, nextId>>

\* lines 106-121: Parcel.create, which runs the pre-save hook and the insert
createParcelInsert(p) ==
  /\ calls[p].pc = "insert"
  /\ LET c == calls[p]
         pricing == calculateParcelFee(c.parcelDetails, c.deliveryInfo, 0,
                                       NoValue)
         doc == preSave(newDocument(c.trackingId, c.senderId, c.receiver,
                                    c.parcelDetails, c.deliveryInfo, pricing,
                                    REQUESTED))
     IN /\ calls' = [calls EXCEPT ![p] = IdleCall]
        /\ IF uniqueIndexRejects(c.trackingId)
           THEN /\ last' = Outcome("createParcel", 0, c.senderId, NoValue,
                                   FALSE, NoNote, DUPLICATE_KEY,
                                   <<"E11000 duplicate key error">>)
                /\ UNCHANGED <<parcels, nextId>>
           ELSE /\ parcels' = (nextId :> doc) @@ parcels
                /\ nextId' = nextId + 1
                /\ last' = Outcome("createParcel", nextId, c.senderId,
                                   NoValue, FALSE, NoNote, OK, <<>>)

(***************************************************************************)
(* The operations on a stored parcel.  Each is one action: the read, the   *)
(* checks and the single findByIdAndUpdate.                                *)
(***************************************************************************)
\* is this history entry one that blockParcel wrote?
IsBlockLog(e) ==
  /\ Len(e.note) >= 2
  /\ e.note[1] = "Parcel "
  /\ e.note[2] \in {"blocked", "unblocked"}

BlockLogs(parcel) ==
  Cardinality({i \in 1..Len(parcel.statusHistory) :
                 IsBlockLog(parcel.statusHistory[i])})

\* variant: a supplied nested object replaces the stored one wholesale
mergeFieldsWholesale(stored, partial) ==
  [k \in DOMAIN stored |->
     IF k \in DOMAIN partial THEN partial[k] ELSE NoValue]

\* $set of the flattened partial object: the supplied leaves replace the
\* stored ones, the others stay
mergeFields(stored, partial) ==
  [k \in DOMAIN stored |->
     IF k \in DOMAIN partial THEN partial[k] ELSE stored[k]]

\* variant: a blocked parcel can be edited by its sender
updateParcelIgnoresBlock(parcelId, senderId, updateData) ==
  /\ NoCallInFlight
  /\ LET op == "updateParcel"
         fail(error, message) ==
           Throw(op, parcelId, senderId, NoValue, FALSE, NoNote, error, message)
     IN IF parcelId \notin Stored
        THEN fail(NOT_FOUND, <<"Parcel not found">>)
        ELSE LET parcel == parcels[parcelId]
                 has(part) == part \in DOMAIN updateData
                 needsPricingRecalculation ==
                   \/ has("parcelDetails")
                   \/ /\ has("deliveryInfo")
                      /\ "urgency" \in DOMAIN updateData.deliveryInfo
                 updatedParcelDetails == parcel.parcelDetails
                 updatedDeliveryInfo ==
                   IF has("deliveryInfo")
                   THEN mergeFields(parcel.deliveryInfo, updateData.deliveryInfo)
                   ELSE parcel.deliveryInfo
                 feeValidation ==
                   validateFeeCalculationInput(updatedParcelDetails,
                                               updatedDeliveryInfo)
                 newPricing ==
                   IF needsPricingRecalculation
                   THEN calculateParcelFee(updatedParcelDetails,
                                           updatedDeliveryInfo,
                                           parcel.pricing.discount,
                                           parcel.pricing.couponCode)
                   ELSE parcel.pricing
                 part(name) ==
                   IF has(name)
                   THEN mergeFields(parcel[name], updateData[name])
                   ELSE parcel[name]
             IN IF parcel.sender # senderId
                THEN fail(FORBIDDEN, <<"You can only update your own parcels">>)
                ELSE IF parcel.currentStatus \notin {REQUESTED, APPROVED}
                THEN fail(BAD_REQUEST,
                       <<"Cannot update parcel after it has been dispatched">>)
                ELSE IF parcel.isCancelled
                THEN fail(BAD_REQUEST, <<"Cannot update cancelled parcel">>)
                ELSE IF needsPricingRecalculation /\ ~feeValidation.isValid
                THEN fail(BAD_REQUEST, feeValidation.errors)
                ELSE /\ findByIdAndUpdate(parcelId,
                          [parcel EXCEPT !.pricing = newPricing,
                                         !.receiver = part("receiver"),
                                         !.parcelDetails = part("parcelDetails"),
                                         !.deliveryInfo = part("deliveryInfo")])
                     /\ last' = Outcome(op, parcelId, senderId, NoValue, FALSE,
                                        NoNote, OK, <<>>)
                     /\ UNCHANGED <<nextId, calls>>

updateParcel(parcelId, senderId, updateData) ==
  /\ NoCallInFlight
  /\ LET op == "updateParcel"
         fail(error, message) ==
           Throw(op, parcelId, senderId, NoValue, FALSE, NoNote, error, message)
     IN IF parcelId \notin Stored
        THEN fail(NOT_FOUND, <<"Parcel not found">>)
        ELSE LET parcel == parcels[parcelId]
                 has(part) == part \in DOMAIN updateData
                 needsPricingRecalculation ==
                   \/ has("parcelDetails")
                   \/ /\ has("deliveryInfo")
                      /\ "urgency" \in DOMAIN updateData.deliveryInfo
                 updatedParcelDetails == parcel.parcelDetails
                 updatedDeliveryInfo ==
                   IF has("deliveryInfo")
                   THEN mergeFields(parcel.deliveryInfo, updateData.deliveryInfo)
                   ELSE parcel.deliveryInfo
                 feeValidation ==
                   validateFeeCalculationInput(updatedParcelDetails,
                                               updatedDeliveryInfo)
                 newPricing ==
                   IF needsPricingRecalculation
                   THEN calculateParcelFee(updatedParcelDetails,
                                           updatedDeliveryInfo,
                                           parcel.pricing.discount,
                                           parcel.pricing.couponCode)
                   ELSE parcel.pricing
                 part(name) ==
                   IF has(name)
                   THEN mergeFields(parcel[name], updateData[name])
                   ELSE parcel[name]
             IN IF parcel.sender # senderId
                THEN fail(FORBIDDEN, <<"You can only update your own parcels">>)
                ELSE IF parcel.currentStatus \notin {REQUESTED, APPROVED}
                THEN fail(BAD_REQUEST,
                       <<"Cannot update parcel after it has been dispatched">>)
                ELSE IF parcel.isBlocked
                THEN fail(BAD_REQUEST, <<"Cannot update blocked parcel">>)
                ELSE IF parcel.isCancelled
                THEN fail(BAD_REQUEST, <<"Cannot update cancelled parcel">>)
                ELSE IF needsPricingRecalculation /\ ~feeValidation.isValid
                THEN fail(BAD_REQUEST, feeValidation.errors)
                ELSE /\ findByIdAndUpdate(parcelId,
                          [parcel EXCEPT !.pricing = newPricing,
                                         !.receiver = part("receiver"),
                                         !.parcelDetails = part("parcelDetails"),
                                         !.deliveryInfo = part("deliveryInfo")])
                     /\ last' = Outcome(op, parcelId, senderId, NoValue, FALSE,
                                        NoNote, OK, <<>>)
                     /\ UNCHANGED <<nextId, calls>>

\* variant: asking for the status the parcel already has is let through
transitionAllowedOrSame(currentStatus, status) ==
  status \in allowedTransitions[currentStatus] \cup {currentStatus}

\* lines 416-418: is the requested status an allowed next status?
transitionAllowed(currentStatus, status) ==
  status \in allowedTransitions[currentStatus]

\* variant: the isCancelled flag is left out of the update
statusUpdateDocumentNoFlag(parcel, adminId, statusUpdate) ==
  LET statusLogEntry ==
        StatusLog(statusUpdate.status, adminId, statusUpdate.location,
                  statusUpdate.note)
  IN [parcel EXCEPT
        !.currentStatus = statusUpdate.status,
        !.statusHistory = Append(@, statusLogEntry)]

\* lines 425-443: the status log entry and the update of the document
statusUpdateDocument(parcel, adminId, statusUpdate) ==
  LET statusLogEntry ==
        StatusLog(statusUpdate.status, adminId, statusUpdate.location,
                  statusUpdate.note)
  IN [parcel EXCEPT
        !.currentStatus = statusUpdate.status,
        !.statusHistory = Append(@, statusLogEntry),
        !.isCancelled = IF statusUpdate.status = CANCELLED THEN TRUE ELSE @]

updateParcelStatus(parcelId, adminId, statusUpdate) ==
  /\ NoCallInFlight
  /\ LET op == "updateParcelStatus"
         fail(error, message) ==
           Throw(op, parcelId, adminId, statusUpdate.status, FALSE,
                 statusUpdate.note, error, message)
     IN IF parcelId \notin Stored
        THEN fail(NOT_FOUND, <<"Parcel not found">>)
        ELSE LET parcel == parcels[parcelId]
             IN IF parcel.isBlocked
                THEN fail(BAD_REQUEST,
                          <<"Cannot update status of blocked parcel">>)
                ELSE IF ~transitionAllowed(parcel.currentStatus,
                                           statusUpdate.status)
                THEN fail(BAD_REQUEST,
                          <<"Cannot transition from ", parcel.currentStatus,
                            " to ", statusUpdate.status>>)
                ELSE /\ findByIdAndUpdate(parcelId,
                          statusUpdateDocument(parcel, adminId, statusUpdate))
                     /\ last' = Outcome(op, parcelId, adminId,
                                        statusUpdate.status, FALSE,
                                        statusUpdate.note, OK, <<>>)
                     /\ UNCHANGED <<nextId, calls>>

\* variant: a picked-up parcel can still be cancelled
canBeCancelledUntilTransit(currentStatus) ==
  currentStatus \in {REQUESTED, APPROVED, PICKED_UP}

\* lines 469-474: a parcel can be cancelled before it is dispatched
canBeCancelled(currentStatus) == currentStatus \in {REQUESTED, APPROVED}

\* variant: the history is $set to the new entry instead of $push-ed
cancelDocumentRewrite(parcel, senderId, reason) ==
  LET statusLogEntry ==
        StatusLog(CANCELLED, senderId, NoValue,
                  IF reason # NoNote THEN reason
                  ELSE <<"Cancelled by sender">>)
  IN [parcel EXCEPT !.currentStatus = CANCELLED,
                    !.isCancelled = TRUE,
                    !.statusHistory = <<statusLogEntry>>]

\* variant: the cancellation does not set the isCancelled flag
cancelDocumentNoFlag(parcel, senderId, reason) ==
  LET statusLogEntry ==
        StatusLog(CANCELLED, senderId, NoValue,
                  IF reason # NoNote THEN reason
                  ELSE <<"Cancelled by sender">>)
  IN [parcel EXCEPT !.currentStatus = CANCELLED,
                    !.statusHistory = Append(@, statusLogEntry)]

\* lines 485-500: the cancellation log entry and the update of the document
cancelDocument(parcel, senderId, reason) ==
  LET statusLogEntry ==
        StatusLog(CANCELLED, senderId, NoValue,
                  IF reason # NoNote THEN reason
                  ELSE <<"Cancelled by sender">>)
  IN [parcel EXCEPT !.currentStatus = CANCELLED,
                    !.isCancelled = TRUE,
                    !.statusHistory = Append(@, statusLogEntry)]

\* variant: cancelling a cancelled parcel again returns it as it is
cancelParcelIdempotent(parcelId, senderId, reason) ==
  /\ NoCallInFlight
  /\ LET op == "cancelParcel"
         fail(error, message) ==
           Throw(op, parcelId, senderId, NoValue, FALSE, reason, error, message)
     IN IF parcelId \notin Stored
        THEN fail(NOT_FOUND, <<"Parcel not found">>)
        ELSE LET parcel == parcels[parcelId]
             IN IF parcel.sender # senderId
                THEN fail(FORBIDDEN, <<"You can only cancel your own parcels">>)
                ELSE IF parcel.isCancelled
                THEN fail(OK, <<>>)
                ELSE IF ~canBeCancelled(parcel.currentStatus)
                THEN fail(BAD_REQUEST,
                       <<"Cannot cancel parcel after it has been dispatched">>)
                ELSE /\ findByIdAndUpdate(parcelId,
                          cancelDocument(parcel, senderId, reason))
                     /\ last' = Outcome(op, parcelId, senderId, NoValue, FALSE,
                                        reason, OK, <<>>)
                     /\ UNCHANGED <<nextId, calls>>

cancelParcel(parcelId, senderId, reason) ==
  /\ NoCallInFlight
  /\ LET op == "cancelParcel"
         fail(error, message) ==
           Throw(op, parcelId, senderId, NoValue, FALSE, reason, error, message)
     IN IF parcelId \notin Stored
        THEN fail(NOT_FOUND, <<"Parcel not found">>)
        ELSE LET parcel == parcels[parcelId]
             IN IF parcel.sender # senderId
                THEN fail(FORBIDDEN, <<"You can only cancel your own parcels">>)
                ELSE IF ~canBeCancelled(parcel.currentStatus)
                THEN fail(BAD_REQUEST,
                       <<"Cannot cancel parcel after it has been dispatched">>)
                ELSE IF parcel.isCancelled
                THEN fail(BAD_REQUEST, <<"Parcel is already cancelled">>)
                ELSE /\ findByIdAndUpdate(parcelId,
                          cancelDocument(parcel, senderId, reason))
                     /\ last' = Outcome(op, parcelId, senderId, NoValue, FALSE,
                                        reason, OK, <<>>)
                     /\ UNCHANGED <<nextId, calls>>

\* User.findOne({ email })
findUserByEmail(email) == {u \in UserIds : User[u].email = email}

\* variant: a parcel in transit can be confirmed too
canBeConfirmedInTransit(currentStatus) ==
  currentStatus \in {IN_TRANSIT, OUT_FOR_DELIVERY}

\* line 526: delivery is confirmed for a parcel that is out for delivery
canBeConfirmed(currentStatus) == currentStatus = OUT_FOR_DELIVERY

\* variant: the note of a non-registered receiver leaves the email out
deliveryDocumentNoEmail(parcel, receiverEmail, note) ==
  LET receiverUser == findUserByEmail(receiverEmail)
      updatedById ==
        IF receiverUser # {} THEN CHOOSE u \in receiverUser : TRUE
        ELSE PlaceholderId
      statusLogEntry ==
        StatusLog(DELIVERED, updatedById, NoValue,
          IF receiverUser # {}
          THEN (IF note # NoNote THEN note
                ELSE <<"Delivery confirmed by receiver">>)
          ELSE <<"Delivery confirmed by non-registered receiver">>
               \o (IF note # NoNote THEN <<" - ">> \o note ELSE <<>>))
  IN [parcel EXCEPT !.currentStatus = DELIVERED,
                    !.statusHistory = Append(@, statusLogEntry)]

\* lines 533-561: who confirmed, the log entry and the update of the document
deliveryDocument(parcel, receiverEmail, note) ==
  LET receiverUser == findUserByEmail(receiverEmail)
      updatedById ==
        IF receiverUser # {} THEN CHOOSE u \in receiverUser : TRUE
        ELSE PlaceholderId
      statusLogEntry ==
        StatusLog(DELIVERED, updatedById, NoValue,
          IF receiverUser # {}
          THEN (IF note # NoNote THEN note
                ELSE <<"Delivery confirmed by receiver">>)
          ELSE <<"Delivery confirmed by non-registered receiver: ",
                 receiverEmail>>
               \o (IF note # NoNote THEN <<" - ">> \o note ELSE <<>>))
  IN [parcel EXCEPT !.currentStatus = DELIVERED,
                    !.statusHistory = Append(@, statusLogEntry)]

confirmDelivery(parcelId, receiverEmail, note) ==
  /\ NoCallInFlight
  /\ LET op == "confirmDelivery"
         fail(error, message) ==
           Throw(op, parcelId, receiverEmail, NoValue, FALSE, note, error,
                 message)
     IN IF parcelId \notin Stored
        THEN fail(NOT_FOUND, <<"Parcel not found">>)
        ELSE LET parcel == parcels[parcelId]
             IN IF parcel.receiver.email # receiverEmail
                THEN fail(FORBIDDEN,
                  <<"You can only confirm delivery for parcels addressed to you">>)
                ELSE IF ~canBeConfirmed(parcel.currentStatus)
                THEN fail(BAD_REQUEST,
                  <<"Parcel must be out for delivery to confirm delivery">>)
                ELSE /\ findByIdAndUpdate(parcelId,
                          deliveryDocument(parcel, receiverEmail, note))
                     /\ last' = Outcome(op, parcelId, receiverEmail, NoValue,
                                        FALSE, note, OK, <<>>)
                     /\ UNCHANGED <<nextId, calls>>

\* variant: the block entry records the status the parcel was created with
blockDocumentStale(parcel, adminId, isBlocked, reason) ==
  LET action == IF isBlocked THEN "blocked" ELSE "unblocked"
      statusLogEntry ==
        StatusLog(parcel.statusHistory[1].status, adminId, NoValue,
          <<"Parcel ", action, " by admin">>
          \o (IF reason # NoNote THEN <<": ">> \o reason ELSE <<>>))
  IN [parcel EXCEPT !.isBlocked = isBlocked,
                    !.statusHistory = Append(@, statusLogEntry)]

\* variant: blocking sets the flag and writes no history entry
blockDocumentNoLog(parcel, adminId, isBlocked, reason) ==
  [parcel EXCEPT !.isBlocked = isBlocked]

\* lines 580-594: the block log entry and the update of the document
blockDocument(parcel, adminId, isBlocked, reason) ==
  LET action == IF isBlocked THEN "blocked" ELSE "unblocked"
      statusLogEntry ==
        StatusLog(parcel.currentStatus, adminId, NoValue,
          <<"Parcel ", action, " by admin">>
          \o (IF reason # NoNote THEN <<": ">> \o reason ELSE <<>>))
  IN [parcel EXCEPT !.isBlocked = isBlocked,
                    !.statusHistory = Append(@, statusLogEntry)]

\* variant: a parcel that is delivered or cancelled, or has the flag already,
\* is refused
blockParcelChecked(parcelId, adminId, isBlocked, reason) ==
  /\ NoCallInFlight
  /\ LET op == "blockParcel"
     IN IF parcelId \notin Stored
        THEN Throw(op, parcelId, adminId, NoValue, isBlocked, reason,
                   NOT_FOUND, <<"Parcel not found">>)
        ELSE IF \/ parcels[parcelId].currentStatus \in {DELIVERED, CANCELLED}
                \/ parcels[parcelId].isBlocked = isBlocked
        THEN Throw(op, parcelId, adminId, NoValue, isBlocked, reason,
                   BAD_REQUEST, <<"Parcel cannot be blocked">>)
        ELSE /\ findByIdAndUpdate(parcelId,
                  blockDocument(parcels[parcelId], adminId, isBlocked, reason))
             /\ last' = Outcome(op, parcelId, adminId, NoValue, isBlocked,
                                reason, OK, <<>>)
             /\ UNCHANGED <<nextId, calls>>

\* lines 568-598
blockParcel(parcelId, adminId, isBlocked, reason) ==
  /\ NoCallInFlight
  /\ LET op == "blockParcel"
     IN IF parcelId \notin Stored
        THEN Throw(op, parcelId, adminId, NoValue, isBlocked, reason,
                   NOT_FOUND, <<"Parcel not found">>)
        ELSE /\ findByIdAndUpdate(parcelId,
                  blockDocument(parcels[parcelId], adminId, isBlocked, reason))
             /\ last' = Outcome(op, parcelId, adminId, NoValue, isBlocked,
                                reason, OK, <<>>)
             /\ UNCHANGED <<nextId, calls>>

\* lines 601-621 and 1151-1174: the file defines the function twice, and only
\* the second definition looks the user up; which of the two a build runs is
\* its choice
assignDeliveryPersonnel(parcelId, deliveryPersonnelId) ==
  /\ NoCallInFlight
  /\ \E verifiesPersonnel \in BOOLEAN :
       LET op == "assignDeliveryPersonnel"
       IN IF parcelId \notin Stored
          THEN Throw(op, parcelId, deliveryPersonnelId, NoValue, FALSE, NoNote,
                     NOT_FOUND, <<"Parcel not found">>)
          ELSE IF verifiesPersonnel /\ deliveryPersonnelId \notin UserIds
          THEN Throw(op, parcelId, deliveryPersonnelId, NoValue, FALSE, NoNote,
                     NOT_FOUND, <<"Delivery personnel not found">>)
          ELSE /\ findByIdAndUpdate(parcelId,
                    [parcels[parcelId] EXCEPT
                       !.deliveryPersonnel = deliveryPersonnelId])
               /\ last' = Outcome(op, parcelId, deliveryPersonnelId, NoValue,
                                  FALSE, NoNote, OK, <<>>)
               /\ UNCHANGED <<nextId, calls>>

\* .populate("sender", "name email phone"): the sender id is replaced by the
\* document of the user it refers to
populate(senderId) ==
  [_id |-> senderId, email |-> User[senderId].email]

\* Document.prototype.toString: the text that inspecting the document prints
DocumentToString(doc) == <<"{ _id: ", doc._id, ", email: ", doc.email, " }">>

\* lines 124-151: the parcel is read with its sender populated and returned
\* to its sender, its receiver or an admin
getParcelById(parcelId, userId, userRole) ==
  /\ NoCallInFlight
  /\ LET op == "getParcelById"
     IN IF parcelId \notin Stored
        THEN Throw(op, parcelId, userId, NoValue, FALSE, NoNote, NOT_FOUND,
                   <<"Parcel not found">>)
        ELSE LET parcel == parcels[parcelId]
             IN IF parcel.sender \notin UserIds
                THEN \* the populated sender is null: toString of null
                     Throw(op, parcelId, userId, NoValue, FALSE, NoNote,
                           INTERNAL_SERVER_ERROR,
                           <<"Cannot read properties of null">>)
                ELSE LET isSender ==
                           DocumentToString(populate(parcel.sender))
                             = <<userId>>
                         isReceiver ==
                           /\ userId \in UserIds
                           /\ parcel.receiver.email = User[userId].email
                         isAdmin == userRole = "admin"
                     IN IF ~isSender /\ ~isReceiver /\ ~isAdmin
                        THEN Throw(op, parcelId, userId, NoValue, FALSE,
                                   NoNote, FORBIDDEN,
                                   <<"You do not have permission to view this parcel">>)
                        ELSE /\ last' = Outcome(op, parcelId, userId, NoValue,
                                                FALSE, NoNote, OK, <<>>)
                             /\ UNCHANGED <<parcels, nextId, calls>>

\* lines 154-169: the public lookup by tracking id
trackParcelByTrackingId(trackingId) ==
  /\ NoCallInFlight
  /\ LET op == "trackParcelByTrackingId"
         found == findByTrackingId(trackingId)
     IN /\ last' = IF found = {}
                   THEN [op |-> op, trackingId |-> trackingId, parcelId |-> 0,
                         error |-> NOT_FOUND,
                         message |-> <<"Parcel not found with this tracking ID">>]
                   ELSE [op |-> op, trackingId |-> trackingId,
                         parcelId |-> CHOOSE id \in found : TRUE,
                         error |-> OK, message |-> <<>>]
        /\ UNCHANGED <<parcels, nextId, calls>>

\* variant: the delete removes every document (deleteMany)
deleteParcelMany(parcelId) ==
  /\ LET op == "deleteParcel"
     IN IF parcelId \notin Stored
        THEN Throw(op, parcelId, NoValue, NoValue, FALSE, NoNote, NOT_FOUND,
                   <<"Parcel not found">>)
        ELSE /\ parcels' = <<>>
             /\ last' = Outcome(op, parcelId, NoValue, NoValue, FALSE, NoNote,
                                OK, <<>>)
             /\ UNCHANGED <<nextId, calls>>

\* lines 624-632

deleteParcel(parcelId) ==
  /\ LET op == "deleteParcel"
     IN IF parcelId \notin Stored
        THEN Throw(op, parcelId, NoValue, NoValue, FALSE, NoNote, NOT_FOUND,
                   <<"Parcel not found">>)
        ELSE /\ parcels' = [id \in Stored \ {parcelId} |-> parcels[id]]
             /\ last' = Outcome(op, parcelId, NoValue, NoValue, FALSE, NoNote,
                                OK, <<>>)
             /\ UNCHANGED <<nextId, calls>>

(***************************************************************************)
(* The inputs the calls are made with.                                     *)
(***************************************************************************)
ParcelDatas ==
  {[receiver |-> [name |-> "Ann", email |-> e],
    parcelDetails |-> [weight |-> w], deliveryInfo |-> [urgency |-> u]] :
     e \in Emails, w \in Weights, u \in Urgencies}

UpdateDatas ==
  {[receiver |-> [name |-> "Bob"]],
   [receiver |-> [name |-> "Bob"], parcelDetails |-> [weight |-> 20],
    deliveryInfo |-> [urgency |-> "express"]]}

StatusUpdates ==
  {[status |-> s, location |-> NoValue, note |-> NoNote] : s \in ParcelStatus}

Reasons == {NoNote, <<"changed my mind">>}

Personnel == {"rc"}

\* a call names a stored parcel or, with one choice of its other inputs, the
\* id 0 of no parcel (the store numbers its parcels from 1)
Targets == Stored \cup {0}

(***************************************************************************)
(* The bounds, as conditions on the state a call leads to.                 *)
(***************************************************************************)
WithinBounds ==
  /\ nextId <= MaxParcels + 1
  /\ \A id \in Stored :
       /\ Len(parcels[id].statusHistory) <= MaxHistory
       /\ BlockLogs(parcels[id]) <= MaxBlocks

(***************************************************************************)
(* The calls executed one at a time.                                       *)
(***************************************************************************)
Next ==
  \/ /\ NoCallInFlight
     \* one parcel is followed at a time: a call reads and writes only the
     \* document it names, and SpecConc holds several parcels at once
     /\ Stored = {}
     /\ nextId <= MaxParcels
     /\ \E senderId \in ActorIds, parcelData \in ParcelDatas :
          createParcelBegin("p1", senderId, parcelData)
  \/ createParcelLookup("p1")
  \/ createParcelInsert("p1")
  \/ \E parcelId \in Targets, senderId \in {"s1", "sb"},
        updateData \in UpdateDatas :
       /\ parcelId \notin Stored => senderId = "s1"
       /\ updateParcel(parcelId, senderId, updateData)
  \/ \E parcelId \in Targets, statusUpdate \in StatusUpdates :
       /\ parcelId \notin Stored => statusUpdate.status = APPROVED
       /\ updateParcelStatus(parcelId, "ad", statusUpdate)
       /\ WithinBounds'
  \/ \E parcelId \in Targets, senderId \in {"s1", "sb"}, reason \in Reasons :
       /\ parcelId \notin Stored => senderId = "s1" /\ reason = NoNote
       /\ cancelParcel(parcelId, senderId, reason)
       /\ WithinBounds'
  \/ \E parcelId \in Targets, receiverEmail \in Emails, note \in Reasons :
       /\ parcelId \notin Stored => receiverEmail = "r@x.com" /\ note = NoNote
       /\ confirmDelivery(parcelId, receiverEmail, note)
       /\ WithinBounds'
  \/ \E parcelId \in Targets, isBlocked \in BOOLEAN :
       /\ parcelId \notin Stored => isBlocked
       /\ blockParcel(parcelId, "ad", isBlocked, NoNote)
       /\ WithinBounds'
  \/ \E parcelId \in Targets, deliveryPersonnelInfo \in Personnel :
       assignDeliveryPersonnel(parcelId, deliveryPersonnelInfo)
  \/ \E parcelId \in Targets : NoCallInFlight /\ deleteParcel(parcelId)

Spec == Init /\ [][Next]_vars

(***************************************************************************)
(* createParcel calls that interleave, with deleteParcel.                  *)
(***************************************************************************)
\* createParcel calls between two of their store steps
InFlight == {p \in Procs : calls[p].pc # "idle"}

NextConc ==
  \/ \E p \in Procs, senderId \in ActorIds, parcelData \in ParcelDatas :
       /\ nextId + Cardinality(InFlight) <= MaxConcParcels
       /\ createParcelBegin(p, senderId, parcelData)
  \/ \E p \in Procs : createParcelLookup(p)
  \/ \E p \in Procs : createParcelInsert(p)
  \/ \E parcelId \in Targets : deleteParcel(parcelId)

SpecConc == Init /\ [][NextConc]_vars

(***************************************************************************)
(* The fee calculator called on its own.                                   *)
(***************************************************************************)
\* the heaviest parcel the validation lets through: 50 kg, in tenths
MaxWeight == 500

\* every tenth of a kilogram up to 1 kg and every whole kilogram up to 50 kg
FeeWeights == {w \in 1..MaxWeight : w <= 10 \/ w % 10 = 0}
FeeUrgencies == {"standard", "express", "urgent"}
Discounts == {0, 10, 95, 599, 600, 700}

\* calculateParcelFee(input): the call and the pricing it returns
calculateParcelFeeCall(weight, urgency, discount) ==
  /\ last' = [op |-> "calculateParcelFee",
              input |-> [weight |-> weight, urgency |-> urgency,
                         discount |-> discount],
              pricing |-> calculateParcelFee([weight |-> weight],
                                             [urgency |-> urgency],
                                             discount, NoValue)]
  /\ UNCHANGED <<parcels, nextId, calls>>

NextFee ==
  \E weight \in FeeWeights, urgency \in FeeUrgencies, discount \in Discounts :
     calculateParcelFeeCall(weight, urgency, discount)

SpecFee == Init /\ [][NextFee]_vars

(***************************************************************************)
(* The fee validation called on its own, and by createParcel.              *)
(***************************************************************************)
\* weights in tenths of a kilogram, from below 0 to above 50 kg
ValidateWeights == {-10, 0, 1, 10, 500, 501, 510}
ValidateUrgencies == {"standard", "express", "urgent", "overnight"}

\* validateFeeCalculationInput(parcelDetails, deliveryInfo): the call and
\* what it returns
validateFeeCalculationInputCall(weight, urgency) ==
  /\ last' = [op |-> "validateFeeCalculationInput",
              input |-> [weight |-> weight, urgency |-> urgency],
              result |-> validateFeeCalculationInput([weight |-> weight],
                                                     [urgency |-> urgency])]
  /\ UNCHANGED <<parcels, nextId, calls>>

NextValidate ==
  \/ \E weight \in ValidateWeights, urgency \in ValidateUrgencies :
       validateFeeCalculationInputCall(weight, urgency)
  \/ /\ nextId <= MaxParcels
     /\ \E senderId \in ActorIds, parcelData \in ParcelDatas :
          createParcelBegin("p1", senderId, parcelData)
  \/ createParcelLookup("p1")
  \/ createParcelInsert("p1")

SpecValidate == Init /\ [][NextValidate]_vars

(***************************************************************************)
(* tracking.ts.  A string is the sequence of its characters.                *)
(***************************************************************************)
\* the random numbers Math.random() is drawn from are k / RandomSteps,
\* k in 0..RandomSteps-1
RandomSteps == 9

DigitChars == <<"0", "1", "2", "3", "4", "5", "6", "7", "8", "9">>

\* String(n) of a natural number: its decimal digits
RECURSIVE NumberToString(_)
NumberToString(n) ==
  IF n < 10 THEN <<DigitChars[n + 1]>>
  ELSE NumberToString(n \div 10) \o <<DigitChars[(n % 10) + 1]>>

\* String.prototype.padStart(targetLength, padString) with a one-character pad
RECURSIVE padStart(_, _, _)
padStart(str, targetLength, padChar) ==
  IF Len(str) >= targetLength THEN str
  ELSE padStart(<<padChar>> \o str, targetLength, padChar)

\* variant: month and day are not padded
generateTrackingIdNoPad(year, month, date, k) ==
  LET dateString == NumberToString(year) \o NumberToString(month + 1)
                    \o NumberToString(date)
      randomNumber == 100000 + ((k * 900000) \div RandomSteps)
  IN <<"T", "R", "K", "-">> \o dateString \o <<"-">>
     \o NumberToString(randomNumber)

\* generateTrackingId() at a date (getFullYear, getMonth, getDate) with the
\* random number k / RandomSteps
generateTrackingId(year, month, date, k) ==
  LET dateString == NumberToString(year)
                    \o padStart(NumberToString(month + 1), 2, "0")
                    \o padStart(NumberToString(date), 2, "0")
      randomNumber == 100000 + ((k * 900000) \div RandomSteps)
  IN <<"T", "R", "K", "-">> \o dateString \o <<"-">>
     \o NumberToString(randomNumber)

\* /^TRK-\d{8}-\d{6}$/ as the sequence of its tokens
trackingRegex ==
  <<"T", "R", "K", "-">> \o [i \in 1..8 |-> "\\d"] \o <<"-">>
  \o [i \in 1..6 |-> "\\d"]

\* does the string from position i on match the tokens from j on, up to the
\* end of the string ($)?
RECURSIVE regexTest(_, _, _, _)
regexTest(tokens, str, i, j) ==
  IF j > Len(tokens) THEN i > Len(str)
  ELSE IF i > Len(str) THEN FALSE
  ELSE /\ IF tokens[j] = "\\d"
          THEN \E d \in 1..10 : DigitChars[d] = str[i]
          ELSE str[i] = tokens[j]
       /\ regexTest(tokens, str, i + 1, j + 1)

isValidTrackingId(trackingId) == regexTest(trackingRegex, trackingId, 1, 1)

\* the dates and random draws the generator is called at
Years == {1970, 2025, 9999}
Months == {0, 8, 9, 11}
Dates == {1, 9, 10, 31}

\* strings given to isValidTrackingId: generated ids and near misses of one
CandidateIds ==
  LET good == generateTrackingId(2025, 0, 1, 0)
  IN {good, Append(good, "0"), Append(good, "\n"), <<" ">> \o good,
      SubSeq(good, 1, Len(good) - 1), <<>>,
      [good EXCEPT ![1] = "t"], [good EXCEPT ![4] = "_"],
      [good EXCEPT ![5] = "x"], [good EXCEPT ![13] = "0"],
      [good EXCEPT ![19] = "a"], SubSeq(good, 5, Len(good))}

generateTrackingIdCall(year, month, date, k) ==
  /\ last' = [op |-> "generateTrackingId",
              result |-> generateTrackingId(year, month, date, k)]
  /\ UNCHANGED <<parcels, nextId, calls>>

isValidTrackingIdCall(trackingId) ==
  /\ last' = [op |-> "isValidTrackingId", input |-> trackingId,
              result |-> isValidTrackingId(trackingId)]
  /\ UNCHANGED <<parcels, nextId, calls>>

NextTracking ==
  \/ \E year \in Years, month \in Months, date \in Dates,
        k \in 0..(RandomSteps - 1) :
       generateTrackingIdCall(year, month, date, k)
  \/ \E trackingId \in CandidateIds : isValidTrackingIdCall(trackingId)
  \/ /\ last.op = "generateTrackingId"
     /\ isValidTrackingIdCall(last.result)

SpecTracking == Init /\ [][NextTracking]_vars

(***************************************************************************)
(* QueryBuilder.ts over the parcels collection.  A filter is a function    *)
(* from field paths to values; a raw query is a function from its keys to  *)
(* their values; page and limit values are strings, i.e. sequences of      *)
(* characters.                                                             *)
(***************************************************************************)
\* the largest collection that is listed
MaxRecords == 25

EmptyFilter == [k \in {} |-> k]

\* the reserved keys of a raw query (app/constants)
excludeField == {"search", "searchTerm", "sort", "limit", "page", "fields"}

\* the characters of the strings that are searched in
Chars(str) ==
  CASE str = "Ann" -> <<"A", "n", "n">>
    [] str = "Bob" -> <<"B", "o", "b">>
    [] str = "rc@x.com" -> <<"r", "c", "@", "x", ".", "c", "o", "m">>
    [] str = "r@x.com" -> <<"r", "@", "x", ".", "c", "o", "m">>
    [] OTHER -> <<>>

\* String.prototype.toLowerCase on one character
toLowerCase(ch) ==
  CASE ch = "A" -> "a" [] ch = "B" -> "b" [] ch = "T" -> "t"
    [] ch = "R" -> "r" [] ch = "K" -> "k" [] ch = "N" -> "n" [] OTHER -> ch

\* { $regex: searchTerm, $options: "i" } on a text, for a term without regex
\* metacharacters: the term occurs in the text, letter case aside
regexMatchesIgnoreCase(text, searchTerm) ==
  \E i \in 0..(Len(text) - Len(searchTerm)) :
     \A j \in 1..Len(searchTerm) :
        toLowerCase(text[i + j]) = toLowerCase(searchTerm[j])

\* the text at a searchable path of a document (no text when the field is
\* absent)
fieldText(doc, path) ==
  CASE path = "trackingId" -> doc.trackingId
    [] path = "receiver.name" -> Chars(doc.receiver.name)
    [] path = "receiver.email" -> Chars(doc.receiver.email)
    [] OTHER -> <<>>

\* the value at a filter path of a document
fieldValue(doc, path) ==
  CASE path = "sender" -> doc.sender
    [] path = "receiver.email" -> doc.receiver.email
    [] path = "currentStatus" -> doc.currentStatus
    [] OTHER -> NoValue

\* Query.find(conditions) on a query that has conditions already: mongoose
\* merges the new conditions into the old, a key of the new replacing the
\* same key of the old
find(conditions, more) ==
  [k \in DOMAIN conditions \cup DOMAIN more |->
     IF k \in DOMAIN more THEN more[k] ELSE conditions[k]]

\* does the document satisfy the conditions?  $or holds the search
matches(doc, conditions) ==
  \A k \in DOMAIN conditions :
     IF k = "$or"
     THEN \E path \in conditions[k].paths :
             regexMatchesIgnoreCase(fieldText(doc, path), conditions[k].term)
     ELSE fieldValue(doc, k) = conditions[k]

\* is the string made of digits only?
isDigits(str) == \A i \in 1..Len(str) : \E d \in 1..10 : DigitChars[d] = str[i]

\* does Number(str) give a number?  Digits with an optional sign do, and so
\* does the empty string (0); a string with any other character of the raw
\* values here (a letter, a sign alone or in the middle) gives NaN
isNumeral(str) ==
  \/ isDigits(str)
  \/ /\ Len(str) >= 2
     /\ str[1] \in {"-", "+"}
     /\ isDigits(Tail(str))

\* Number(value) of a numeral
RECURSIVE Number(_)
Number(str) ==
  IF str = <<>> THEN 0
  ELSE IF str[1] = "-" THEN 0 - Number(Tail(str))
  ELSE IF str[1] = "+" THEN Number(Tail(str))
  ELSE 10 * Number(SubSeq(str, 1, Len(str) - 1))
       + (CHOOSE d \in 0..9 : DigitChars[d + 1] = str[Len(str)])

\* Number(query[key]) || fallback: the fallback replaces undefined, NaN and 0
numberOr(query, key, fallback) ==
  IF key \notin DOMAIN query THEN fallback
  ELSE IF ~isNumeral(query[key]) THEN fallback
  ELSE IF Number(query[key]) = 0 THEN fallback
  ELSE Number(query[key])

\* new QueryBuilder(modelQuery, query): the mongoose query being built
QueryBuilder(conditions) ==
  [conditions |-> conditions, sort |-> NoValue, skip |-> 0, limit |-> 0]

\* lines 26-37
search(modelQuery, query, searchableField) ==
  LET searchTerm ==
        IF "search" \in DOMAIN query /\ query["search"] # <<>>
        THEN query["search"]
        ELSE IF "searchTerm" \in DOMAIN query /\ query["searchTerm"] # <<>>
        THEN query["searchTerm"]
        ELSE <<>>
  IN IF searchTerm # <<>>
     THEN [modelQuery EXCEPT
             !.conditions = find(@, "$or" :> [paths |-> searchableField,
                                              term |-> searchTerm])]
     ELSE modelQuery

\* lines 13-24
filter(modelQuery, query) ==
  LET filter == [k \in DOMAIN query \ excludeField |-> query[k]]
  IN [modelQuery EXCEPT !.conditions = find(@, filter)]

\* lines 39-45
sort(modelQuery, query) ==
  [modelQuery EXCEPT
     !.sort = IF "sort" \in DOMAIN query THEN query["sort"] ELSE "-createdAt"]

\* variant: the page number is taken as the number of records to skip
paginateSkipPage(modelQuery, query) ==
  LET page == numberOr(query, "page", 1)
      limit == numberOr(query, "limit", 10)
  IN [modelQuery EXCEPT !.skip = page - 1, !.limit = limit]

\* lines 53-61
paginate(modelQuery, query) ==
  LET page == numberOr(query, "page", 1)
      limit == numberOr(query, "limit", 10)
      skip == (page - 1) * limit
  IN [modelQuery EXCEPT !.skip = skip, !.limit = limit]

\* the stored parcels that satisfy the conditions
matching(conditions) == {id \in Stored : matches(parcels[id], conditions)}

\* the ids in the order of the sort expression; a parcel created later has
\* the larger id and the later createdAt
sorted(ids, sortExpr) ==
  [i \in 1..Cardinality(ids) |->
     CHOOSE id \in ids :
        IF sortExpr = "-createdAt"
        THEN Cardinality({other \in ids : other > id}) = i - 1
        ELSE Cardinality({other \in ids : other < id}) = i - 1]

\* build(): the find with its conditions, sort, skip and limit
build(modelQuery) ==
  LET all == sorted(matching(modelQuery.conditions), modelQuery.sort)
      upto == IF modelQuery.skip + modelQuery.limit < Len(all)
              THEN modelQuery.skip + modelQuery.limit ELSE Len(all)
  IN SubSeq(all, modelQuery.skip + 1, upto)

\* Math.ceil(total / limit) for a total that is not negative and a limit
\* that is not 0
ceil(total, limit) ==
  IF limit > 0 THEN (total + limit - 1) \div limit
  ELSE 0 - (total \div (0 - limit))

\* lines 67-78
getMeta(modelQuery, query) ==
  LET totalDocuments == Cardinality(matching(modelQuery.conditions))
      page == numberOr(query, "page", 1)
      limit == numberOr(query, "limit", 10)
      totalPage == ceil(totalDocuments, limit)
  IN [page |-> page, limit |-> limit, total |-> totalDocuments,
      totalPage |-> totalPage]

\* the chain search, filter, sort, paginate (fields only projects), then
\* build and getMeta
listParcels(op, actor, conditions, searchableFields, query) ==
  LET parcelQuery ==
        paginate(sort(filter(search(QueryBuilder(conditions), query,
                                    searchableFields),
                             query),
                      query),
                 query)
  IN /\ last' = [op |-> op, actor |-> actor, query |-> query,
                 parcels |-> build(parcelQuery),
                 meta |-> getMeta(parcelQuery, query)]
     /\ UNCHANGED <<parcels, nextId, calls>>

getAllParcels(query) ==
  listParcels("getAllParcels", NoValue, EmptyFilter,
              {"trackingId", "receiver.name", "receiver.email",
               "parcelDetails.description"},
              query)

getSenderParcels(senderId, query) ==
  listParcels("getSenderParcels", senderId, "sender" :> senderId,
              {"trackingId", "receiver.name", "receiver.email",
               "parcelDetails.description"},
              query)

getReceiverParcels(receiverEmail, query) ==
  listParcels("getReceiverParcels", receiverEmail,
              "receiver.email" :> receiverEmail,
              {"trackingId", "parcelDetails.description"}, query)

\* the paths of the parcel schema a filter can name
SchemaPaths ==
  {"trackingId", "sender", "receiver.name", "receiver.email", "currentStatus",
   "isBlocked", "isCancelled", "deliveryPersonnel"}

\* the cast mongoose applies to the raw query before it becomes a filter:
\* under strictQuery a key that is no path of the schema is dropped, without
\* it the key stays and is compared with a field no document has
cast(query, strictQuery) ==
  IF strictQuery
  THEN [k \in DOMAIN query \cap (SchemaPaths \cup excludeField) |-> query[k]]
  ELSE query

\* user.controller.ts lines 473-499: the receiver's listing with
\* status: "delivered" added to the raw query.  strictQuery is an option of
\* the build (its default differs between mongoose versions)
getDeliveryHistory(receiverEmail, query) ==
  /\ NoCallInFlight
  /\ \E strictQuery \in BOOLEAN :
       LET queryWithDeliveredFilter ==
             [k \in DOMAIN query \cup {"status"} |->
                IF k = "status" THEN "delivered" ELSE query[k]]
       IN listParcels("getDeliveryHistory", receiverEmail,
                      "receiver.email" :> receiverEmail,
                      {"trackingId", "parcelDetails.description"},
                      cast(queryWithDeliveredFilter, strictQuery))

\* the collection of n parcels as their createParcel calls stored them, the
\* senders, receivers and names alternating (sb sent parcels before being
\* blocked)
Collection(n) ==
  [i \in 1..n |->
     preSave(newDocument(
       <<"T", "R", "K", "-", "2", "0", "2", "5", "0", "1", "0", "1", "-">>
         \o NumberToString(100000 + i),
       IF i % 2 = 1 THEN "s1" ELSE "sb",
       [name |-> IF i % 3 = 0 THEN "Bob" ELSE "Ann",
        email |-> IF i % 5 < 2 THEN "rc@x.com" ELSE "r@x.com"],
       [weight |-> 10], [urgency |-> "standard"],
       calculateParcelFee([weight |-> 10], [urgency |-> "standard"], 0,
                          NoValue),
       REQUESTED))]

CollectionSizes == {0, 10, MaxRecords}

\* the raw queries: each key is absent or has one of a few values
Optional(key, values) == {EmptyFilter} \cup {key :> v : v \in values}

RawQueries ==
  {page @@ limit @@ order @@ term @@ sender @@ email :
     page \in Optional("page", {<<"3">>}),
     limit \in Optional("limit", {<<"1", "0">>, <<"7">>}),
     order \in Optional("sort", {"createdAt"}),
     term \in Optional("searchTerm", {<<"a", "N", "n">>}),
     sender \in Optional("sender", {"sb"}),
     email \in Optional("receiver.email", {"rc@x.com"})}

InitQuery ==
  /\ \E n \in CollectionSizes :
       /\ parcels = Collection(n)
       /\ nextId = n + 1
  /\ calls = [p \in Procs |-> IdleCall]
  /\ last = Outcome("none", 0, NoValue, NoValue, FALSE, NoNote, OK, <<>>)

NextQuery ==
  \/ \E query \in RawQueries : getAllParcels(query)
  \/ \E query \in RawQueries : getSenderParcels("s1", query)
  \/ \E query \in RawQueries : getReceiverParcels("r@x.com", query)

SpecQuery == InitQuery /\ [][NextQuery]_vars

(***************************************************************************)
(* Reading and deleting: parcels are created and deleted, read by id and   *)
(* by tracking id, and every operation is called on ids whose parcel is    *)
(* gone.                                                                   *)
(***************************************************************************)
\* the ids the store has given out so far, and the id 0 of no parcel
IssuedIds == 0..(nextId - 1)

\* the role in the caller's token: the user's role (an unregistered id comes
\* with the role sender)
TokenRole(userId) == IF userId \in UserIds THEN User[userId].role ELSE "sender"

NextAccess ==
  \/ /\ NoCallInFlight
     /\ nextId <= MaxConcParcels
     /\ \E senderId \in ActorIds, parcelData \in ParcelDatas :
          createParcelBegin("p1", senderId, parcelData)
  \/ createParcelLookup("p1")
  \/ createParcelInsert("p1")
  \/ \E parcelId \in IssuedIds, userId \in ActorIds :
       getParcelById(parcelId, userId, TokenRole(userId))
  \/ \E trackingId \in TrackingIds : trackParcelByTrackingId(trackingId)
  \/ \E parcelId \in IssuedIds : NoCallInFlight /\ deleteParcel(parcelId)
  \/ \E parcelId \in IssuedIds \ Stored, updateData \in UpdateDatas :
       updateParcel(parcelId, "s1", updateData)
  \/ \E parcelId \in IssuedIds \ Stored :
       updateParcelStatus(parcelId, "ad",
         [status |-> APPROVED, location |-> NoValue, note |-> NoNote])
  \/ \E parcelId \in IssuedIds \ Stored : cancelParcel(parcelId, "s1", NoNote)
  \/ \E parcelId \in IssuedIds \ Stored :
       confirmDelivery(parcelId, "rc@x.com", NoNote)
  \/ \E parcelId \in IssuedIds \ Stored :
       blockParcel(parcelId, "ad", TRUE, NoNote)
  \/ \E parcelId \in IssuedIds \ Stored, deliveryPersonnelInfo \in Personnel :
       assignDeliveryPersonnel(parcelId, deliveryPersonnelInfo)

SpecAccess == Init /\ [][NextAccess]_vars

(***************************************************************************)
(* Blocking and unblocking: two parcels are created from the same request  *)
(* and moved through their statuses; the first one is blocked and          *)
(* unblocked on the way.                                                   *)
(***************************************************************************)
MaxToggles == 2

\* the request both parcels are created from
TwinData ==
  [receiver |-> [name |-> "Ann", email |-> "rc@x.com"],
   parcelDetails |-> [weight |-> 10], deliveryInfo |-> [urgency |-> "standard"]]

\* at most MaxHistory status entries and MaxToggles block entries a parcel
BlockBounds ==
  \A id \in Stored :
     /\ Len(parcels[id].statusHistory) - BlockLogs(parcels[id]) <= MaxHistory
     /\ BlockLogs(parcels[id]) <= MaxToggles

\* the ids the store gives the two parcels
TwinIds == {1, 2}

NextBlock ==
  \/ /\ NoCallInFlight
     /\ nextId \in TwinIds
     /\ createParcelBegin("p1", "s1", TwinData)
  \/ createParcelLookup("p1")
  \/ createParcelInsert("p1")
  \* the status updates that succeed are followed
  \/ \E parcelId \in Stored, status \in ParcelStatus :
       /\ updateParcelStatus(parcelId, "ad",
            [status |-> status, location |-> NoValue, note |-> NoNote])
       /\ last'.error = OK
       /\ BlockBounds'
  \/ \E isBlocked \in BOOLEAN :
       /\ blockParcel(1, "ad", isBlocked, NoNote)
       /\ BlockBounds'

SpecBlock == Init /\ [][NextBlock]_vars

(***************************************************************************)
(* getParcelStats (lines 635-737) on parcels that carry their timestamps.  *)
(* Time is counted in days.                                                *)
(***************************************************************************)
\* the length of the month the revenue is summed over
DaysInMonth == 30

RECURSIVE sumOf(_, _)
\* $sum of a value over documents
sumOf(ids, value) ==
  IF ids = {} THEN 0
  ELSE LET id == CHOOSE i \in ids : TRUE
       IN value[id] + sumOf(ids \ {id}, value)

\* lines 641-648: $group by currentStatus with a count
statusStats ==
  {[_id |-> s,
    count |-> Cardinality({id \in Stored : parcels[id].currentStatus = s})] :
     s \in {parcels[id].currentStatus : id \in Stored}}

\* lines 651-668: the nine buckets, zero unless the aggregation has the status
statusBreakdown ==
  [s \in {REQUESTED, APPROVED, PICKED_UP, IN_TRANSIT, OUT_FOR_DELIVERY,
          DELIVERED, CANCELLED, RETURNED, FAILED_DELIVERY} |->
     IF \E stat \in statusStats : stat._id = s
     THEN (CHOOSE stat \in statusStats : stat._id = s).count
     ELSE 0]

\* variant: picked-up parcels are not counted as in transit
inTransitParcelsNoPickedUp(breakdown) ==
  breakdown[IN_TRANSIT] + breakdown[OUT_FOR_DELIVERY]

\* line 673
inTransitParcels(breakdown) ==
  breakdown[IN_TRANSIT] + breakdown[OUT_FOR_DELIVERY] + breakdown[PICKED_UP]

\* lines 678-697: the fees of the parcels created in the month of now that
\* are not cancelled
revenueThisMonth(now) ==
  LET inMonth == {id \in Stored :
                    /\ parcels[id].createdAt \div DaysInMonth
                         = now \div DaysInMonth
                    /\ parcels[id].currentStatus # CANCELLED}
  IN sumOf(inMonth, [id \in inMonth |-> parcels[id].pricing.totalFee])

\* lines 699-725: the mean of updatedAt - createdAt over the delivered
\* parcels, with one decimal (in tenths of a day), or N/A when it is not
\* above zero
averageDeliveryTime ==
  LET delivered == {id \in Stored : parcels[id].currentStatus = DELIVERED}
      days == sumOf(delivered,
                [id \in delivered |->
                   parcels[id].updatedAt - parcels[id].createdAt])
      count == Cardinality(delivered)
  IN IF delivered = {} \/ days = 0
     THEN [text |-> "N/A", tenths |-> 0]
     ELSE [text |-> "days",
           tenths |-> (20 * days + count) \div (2 * count)]

\* lines 635-737
getParcelStats ==
  /\ NoCallInFlight
  /\ \E now \in Latest..MaxTime :
       last' = [op |-> "getParcelStats", now |-> now,
                stats |->
                  [totalParcels |->
                     sumOf(DOMAIN statusBreakdown, statusBreakdown),
                   deliveredParcels |-> statusBreakdown[DELIVERED],
                   inTransitParcels |-> inTransitParcels(statusBreakdown),
                   pendingParcels |->
                     statusBreakdown[REQUESTED] + statusBreakdown[APPROVED],
                   cancelledParcels |->
                     statusBreakdown[CANCELLED] + statusBreakdown[RETURNED]
                       + statusBreakdown[FAILED_DELIVERY],
                   averageDeliveryTime |-> averageDeliveryTime,
                   revenueThisMonth |-> revenueThisMonth(now),
                   statusBreakdown |-> statusBreakdown]]
  /\ UNCHANGED <<parcels, nextId, calls>>

\* the parcel the i-th createParcel call stored, on day i - 1
TimestampedParcel(i) ==
  LET doc == preSave(newDocument(
               IF i = 1 THEN "TRK-20250101-100000" ELSE "TRK-20250101-100001",
               "s1", TwinData.receiver, TwinData.parcelDetails,
               TwinData.deliveryInfo,
               calculateParcelFee(TwinData.parcelDetails,
                                  TwinData.deliveryInfo, 0, NoValue),
               REQUESTED))
  IN [k \in DOMAIN doc \cup {"createdAt", "updatedAt"} |->
        IF k \in DOMAIN doc THEN doc[k] ELSE i - 1]

\* none, one or two parcels have been created
InitStats ==
  /\ \E n \in 0..Cardinality(TwinIds) :
       /\ parcels = [i \in 1..n |-> TimestampedParcel(i)]
       /\ nextId = n + 1
  /\ calls = [p \in Procs |-> IdleCall]
  /\ last = Outcome("none", 0, NoValue, NoValue, FALSE, NoNote, OK, <<>>)

NextStats ==
  \* the status updates that succeed are followed
  \/ \E parcelId \in Stored, status \in ParcelStatus :
       /\ updateParcelStatus(parcelId, "ad",
            [status |-> status, location |-> NoValue, note |-> NoNote])
       /\ last'.error = OK
       /\ BlockBounds'
  \* what is done to a parcel after its delivery
  \/ \E parcelId \in Stored :
       /\ parcels[parcelId].currentStatus = DELIVERED
       /\ blockParcel(parcelId, "ad", TRUE, NoNote)
       /\ BlockLogs(parcels'[parcelId]) <= MaxBlocks
  \/ \E parcelId \in Stored :
       /\ parcels[parcelId].currentStatus = DELIVERED
       /\ assignDeliveryPersonnel(parcelId, "rc")
  \/ getParcelStats

SpecStats == InitStats /\ [][NextStats]_vars

(***************************************************************************)
(* The receiver's delivery history: two parcels are created, moved through *)
(* their statuses and listed.                                              *)
(***************************************************************************)
HistoryDatas ==
  {[receiver |-> [name |-> "Ann", email |-> e],
    parcelDetails |-> [weight |-> 10],
    deliveryInfo |-> [urgency |-> "standard"]] : e \in Emails}

NextHistory ==
  \/ /\ NoCallInFlight
     /\ nextId \in TwinIds
     /\ \E parcelData \in HistoryDatas :
          createParcelBegin("p1", "s1", parcelData)
  \/ createParcelLookup("p1")
  \/ createParcelInsert("p1")
  \* the status updates that succeed are followed
  \/ \E parcelId \in Stored, status \in ParcelStatus :
       /\ updateParcelStatus(parcelId, "ad",
            [status |-> status, location |-> NoValue, note |-> NoNote])
       /\ last'.error = OK
       /\ BlockBounds'
  \/ \E receiverEmail \in Emails,
        query \in {EmptyFilter, "limit" :> <<"7">>} :
       getDeliveryHistory(receiverEmail, query)

SpecHistory == Init /\ [][NextHistory]_vars

(***************************************************************************)
(* Calls on the same parcel that interleave.  Each operation reads the     *)
(* parcel (findById), checks it and prepares its update, and hands the     *)
(* update to findByIdAndUpdate in a later step: another call may read or   *)
(* write in between.  The calls whose checks pass are followed.            *)
(***************************************************************************)
NoFields == [k \in {} |-> k]

\* the update object of a findByIdAndUpdate: the fields it sets, the nested
\* objects of which it sets the given leaves, and the entries it pushes
UpdateObject(set, leaves, push) ==
  [set |-> set, leaves |-> leaves, push |-> push]

\* the store applies the update to the document it holds at that moment
applyUpdate(doc, update) ==
  [k \in DOMAIN doc |->
     IF k \in DOMAIN update.set THEN update.set[k]
     ELSE IF k \in DOMAIN update.leaves
     THEN mergeFields(doc[k], update.leaves[k])
     ELSE IF k = "statusHistory" THEN doc[k] \o update.push
     ELSE doc[k]]

\* the statusLogEntry a call built: the entry its document function appends
statusLogEntryOf(document) ==
  <<document.statusHistory[Len(document.statusHistory)]>>

\* the call of process p between its read and its write
PendingWrite(op, parcelId, actor, update) ==
  [pc |-> "write", op |-> op, parcelId |-> parcelId, actor |-> actor,
   update |-> update]

\* the read and the checks are done: the call holds its update
hold(p, op, parcelId, actor, update) ==
  /\ calls[p].pc = "idle"
  /\ parcelId \in Stored
  /\ calls' = [calls EXCEPT ![p] = PendingWrite(op, parcelId, actor, update)]
  /\ UNCHANGED <<parcels, nextId, last>>

\* updateParcelStatus, lines 403-432
updateParcelStatusRead(p, parcelId, adminId, statusUpdate) ==
  /\ parcelId \in Stored
  /\ LET parcel == parcels[parcelId]
     IN /\ ~parcel.isBlocked
        /\ transitionAllowed(parcel.currentStatus, statusUpdate.status)
        /\ hold(p, "updateParcelStatus", parcelId, adminId,
             UpdateObject(
               IF statusUpdate.status = CANCELLED
               THEN [currentStatus |-> statusUpdate.status, isCancelled |-> TRUE]
               ELSE [currentStatus |-> statusUpdate.status],
               NoFields,
               statusLogEntryOf(
                 statusUpdateDocument(parcel, adminId, statusUpdate))))

\* cancelParcel, lines 455-491
cancelParcelRead(p, parcelId, senderId, reason) ==
  /\ parcelId \in Stored
  /\ LET parcel == parcels[parcelId]
     IN /\ parcel.sender = senderId
        /\ canBeCancelled(parcel.currentStatus)
        /\ ~parcel.isCancelled
        /\ hold(p, "cancelParcel", parcelId, senderId,
             UpdateObject([currentStatus |-> CANCELLED, isCancelled |-> TRUE],
                          NoFields,
                          statusLogEntryOf(
                            cancelDocument(parcel, senderId, reason))))

\* confirmDelivery, lines 512-553
confirmDeliveryRead(p, parcelId, receiverEmail, note) ==
  /\ parcelId \in Stored
  /\ LET parcel == parcels[parcelId]
     IN /\ parcel.receiver.email = receiverEmail
        /\ canBeConfirmed(parcel.currentStatus)
        /\ hold(p, "confirmDelivery", parcelId, receiverEmail,
             UpdateObject([currentStatus |-> DELIVERED], NoFields,
                          statusLogEntryOf(
                            deliveryDocument(parcel, receiverEmail, note))))

\* blockParcel, lines 574-586: the entry takes the status that was read
blockParcelRead(p, parcelId, adminId, isBlocked, reason) ==
  /\ parcelId \in Stored
  /\ hold(p, "blockParcel", parcelId, adminId,
       UpdateObject([isBlocked |-> isBlocked], NoFields,
                    statusLogEntryOf(
                      blockDocument(parcels[parcelId], adminId, isBlocked,
                                    reason))))

\* updateParcel, lines 267-387: pricing is the pricing that was read, or
\* the one recomputed from the document that was read, and is always set
updateParcelRead(p, parcelId, senderId, updateData) ==
  /\ parcelId \in Stored
  /\ LET parcel == parcels[parcelId]
         has(part) == part \in DOMAIN updateData
         needsPricingRecalculation ==
           \/ has("parcelDetails")
           \/ /\ has("deliveryInfo")
              /\ "urgency" \in DOMAIN updateData.deliveryInfo
         updatedParcelDetails == parcel.parcelDetails
         updatedDeliveryInfo ==
           IF has("deliveryInfo")
           THEN mergeFields(parcel.deliveryInfo, updateData.deliveryInfo)
           ELSE parcel.deliveryInfo
         newPricing ==
           IF needsPricingRecalculation
           THEN calculateParcelFee(updatedParcelDetails, updatedDeliveryInfo,
                                   parcel.pricing.discount,
                                   parcel.pricing.couponCode)
           ELSE parcel.pricing
     IN /\ parcel.sender = senderId
        /\ parcel.currentStatus \in {REQUESTED, APPROVED}
        /\ ~parcel.isBlocked
        /\ ~parcel.isCancelled
        /\ needsPricingRecalculation
             => validateFeeCalculationInput(updatedParcelDetails,
                                            updatedDeliveryInfo).isValid
        /\ hold(p, "updateParcel", parcelId, senderId,
             UpdateObject([pricing |-> newPricing], updateData, <<>>))

\* the findByIdAndUpdate of the call: null comes back when the parcel is gone
findByIdAndUpdateWrite(p) ==
  /\ calls[p].pc = "write"
  /\ LET c == calls[p]
     IN /\ IF c.parcelId \in Stored
           THEN findByIdAndUpdate(c.parcelId,
                                  applyUpdate(parcels[c.parcelId], c.update))
           ELSE UNCHANGED parcels
        /\ last' = [op |-> c.op, parcelId |-> c.parcelId, actor |-> c.actor,
                    update |-> c.update, error |-> OK]
  /\ calls' = [calls EXCEPT ![p] = IdleCall]
  /\ UNCHANGED nextId

RaceBounds ==
  \A id \in Stored :
     /\ Len(parcels[id].statusHistory) <= MaxHistory
     /\ BlockLogs(parcels[id]) <= MaxBlocks

NextRace ==
  \/ /\ NoCallInFlight
     /\ Stored = {}
     /\ nextId <= MaxParcels
     /\ createParcelBegin("p1", "s1", TwinData)
  \/ createParcelLookup("p1")
  \/ createParcelInsert("p1")
  \/ \E p \in Procs, parcelId \in Stored, status \in ParcelStatus :
       updateParcelStatusRead(p, parcelId, "ad",
         [status |-> status, location |-> NoValue, note |-> NoNote])
  \/ \E p \in Procs, parcelId \in Stored :
       cancelParcelRead(p, parcelId, "s1", NoNote)
  \/ \E p \in Procs, parcelId \in Stored :
       confirmDeliveryRead(p, parcelId, "rc@x.com", NoNote)
  \/ \E p \in Procs, parcelId \in Stored, isBlocked \in BOOLEAN :
       blockParcelRead(p, parcelId, "ad", isBlocked, NoNote)
  \/ \E p \in Procs, parcelId \in Stored, updateData \in UpdateDatas :
       updateParcelRead(p, parcelId, "s1", updateData)
  \/ \E p \in Procs : findByIdAndUpdateWrite(p) /\ RaceBounds'

SpecRace == Init /\ [][NextRace]_vars

(***************************************************************************)
(* Paging: paginate and getMeta are applied to raw page and limit values   *)
(* of every kind a query string can carry.                                 *)
(***************************************************************************)
\* the raw values: empty, "0", a word, digit strings (one with a leading
\* zero) and a signed digit string
RawNumbers ==
  {<<>>, <<"0">>, <<"a">>, <<"3">>, <<"1", "2">>, <<"0", "7">>, <<"-", "2">>}

PageQueries ==
  {page @@ limit :
     page \in Optional("page", RawNumbers),
     limit \in Optional("limit", RawNumbers)}

\* QueryBuilder.ts lines 53-61 and 67-78 on one builder
paginateAndGetMeta(query) ==
  LET parcelQuery == paginate(QueryBuilder(EmptyFilter), query)
  IN /\ last' = [op |-> "paginate", query |-> query,
                 modelQuery |-> parcelQuery,
                 meta |-> getMeta(parcelQuery, query)]
     /\ UNCHANGED <<parcels, nextId, calls>>

NextPage == \E query \in PageQueries : paginateAndGetMeta(query)

SpecPage == InitQuery /\ [][NextPage]_vars

(***************************************************************************)
(* Assigning delivery personnel: one parcel is moved through its statuses, *)
(* blocked and unblocked, and personnel are assigned to it and to the id   *)
(* of no parcel, by the id of a user and by an id of no user.              *)
(***************************************************************************)
PersonnelIds == {"rc", "zz"}

NextAssign ==
  \/ /\ NoCallInFlight
     /\ nextId = 1
     /\ createParcelBegin("p1", "s1", TwinData)
  \/ createParcelLookup("p1")
  \/ createParcelInsert("p1")
  \/ \E parcelId \in Stored, status \in ParcelStatus :
       /\ updateParcelStatus(parcelId, "ad",
            [status |-> status, location |-> NoValue, note |-> NoNote])
       /\ last'.error = OK
       /\ BlockBounds'
  \/ \E parcelId \in Stored, isBlocked \in BOOLEAN :
       /\ blockParcel(parcelId, "ad", isBlocked, NoNote)
       /\ BlockBounds'
  \/ \E parcelId \in Targets, deliveryPersonnelId \in PersonnelIds :
       assignDeliveryPersonnel(parcelId, deliveryPersonnelId)

SpecAssign == Init /\ [][NextAssign]_vars

(***************************************************************************)
(* Properties.                                                             *)
(***************************************************************************)
\* the step is a call of op that returned: it reported an outcome or wrote
Called(op) == last'.op = op /\ (last' # last \/ parcels' # parcels)

\* the step is a call of op on the stored parcel id
CalledOn(op, id) == Called(op) /\ last'.parcelId = id /\ id \in Stored

Range(seq) == {seq[i] : i \in 1..Len(seq)}

Terminal == {DELIVERED, CANCELLED}

\* C1: on an unblocked parcel in status S, updateParcelStatus to a status T
\* outside allowedTransitions[S] fails with a bad-request error whose message
\* names S and T, and the parcel's currentStatus, statusHistory, isCancelled
\* and isBlocked stay as they were.
C1_InvalidTransitionRejected ==
  [][\A id \in Stored :
       LET S == parcels[id].currentStatus
           T == last'.status
       IN (/\ CalledOn("updateParcelStatus", id)
           /\ ~parcels[id].isBlocked
           /\ T \notin allowedTransitions[S])
          => /\ last'.error = BAD_REQUEST
             /\ {S, T} \subseteq Range(last'.message)
             /\ last'.message[1] = "Cannot transition from "
             /\ id \in DOMAIN parcels'
             /\ parcels'[id].currentStatus = S
             /\ parcels'[id].statusHistory = parcels[id].statusHistory
             /\ parcels'[id].isCancelled = parcels[id].isCancelled
             /\ parcels'[id].isBlocked = parcels[id].isBlocked]_vars

\* a delivered, unblocked parcel was just refused the transition to its own
\* status
C1_Witness ==
  \E id \in Stored :
     /\ last.op = "updateParcelStatus" /\ last.parcelId = id
     /\ last.error = BAD_REQUEST
     /\ ~parcels[id].isBlocked
     /\ parcels[id].currentStatus = DELIVERED
     /\ last.status = DELIVERED

\* C2: every change of a stored parcel's currentStatus is made by
\* updateParcelStatus, cancelParcel or confirmDelivery and goes from a status S
\* to a status in allowedTransitions[S]; DELIVERED is entered from
\* OUT_FOR_DELIVERY only and CANCELLED from REQUESTED or APPROVED only.
C2_OnlyAllowedTransitions ==
  [][\A id \in Stored \cap DOMAIN parcels' :
       LET S == parcels[id].currentStatus
           T == parcels'[id].currentStatus
       IN T # S
          => /\ T \in allowedTransitions[S]
             /\ last'.op \in {"updateParcelStatus", "cancelParcel",
                              "confirmDelivery"}
             /\ last'.parcelId = id
             /\ T = DELIVERED => S = OUT_FOR_DELIVERY
             /\ T = CANCELLED => S \in {REQUESTED, APPROVED}]_vars

\* the receiver has just confirmed a delivery
C2_Witness ==
  \E id \in Stored :
     /\ last.op = "confirmDelivery" /\ last.parcelId = id /\ last.error = OK
     /\ parcels[id].currentStatus = DELIVERED

\* C3: once a parcel is DELIVERED or CANCELLED no call changes its
\* currentStatus.
C3_TerminalStatusesStay ==
  [][\A id \in Stored \cap DOMAIN parcels' :
       parcels[id].currentStatus \in Terminal
       => parcels'[id].currentStatus = parcels[id].currentStatus]_vars

\* a cancelled parcel was just refused the way back to REQUESTED
C3_Witness ==
  \E id \in Stored :
     /\ parcels[id].currentStatus = CANCELLED
     /\ last.op = "updateParcelStatus" /\ last.parcelId = id
     /\ last.status = REQUESTED /\ last.error = BAD_REQUEST

\* C4: a successful updateParcelStatus to T sets currentStatus to T, appends
\* one history entry with status T and updatedBy the admin, and sets
\* isCancelled when T is CANCELLED and leaves it alone otherwise.
C4_StatusUpdateEffect ==
  [][\A id \in Stored :
       (CalledOn("updateParcelStatus", id) /\ last'.error = OK)
       => /\ id \in DOMAIN parcels'
          /\ parcels'[id].currentStatus = last'.status
          /\ Len(parcels'[id].statusHistory)
               = Len(parcels[id].statusHistory) + 1
          /\ SubSeq(parcels'[id].statusHistory, 1,
                    Len(parcels[id].statusHistory))
               = parcels[id].statusHistory
          /\ LET e == parcels'[id].statusHistory[Len(parcels'[id].statusHistory)]
             IN e.status = last'.status /\ e.updatedBy = last'.actor
          /\ parcels'[id].isCancelled
               = IF last'.status = CANCELLED THEN TRUE
                 ELSE parcels[id].isCancelled]_vars

\* the admin has just cancelled a parcel through updateParcelStatus
C4_Witness ==
  \E id \in Stored :
     /\ last.op = "updateParcelStatus" /\ last.parcelId = id
     /\ last.error = OK /\ last.status = CANCELLED
     /\ parcels[id].isCancelled
     /\ parcels[id].currentStatus = CANCELLED

\* C5: while a parcel is blocked, updateParcel, updateParcelStatus,
\* cancelParcel, confirmDelivery and assignDeliveryPersonnel on it are all
\* rejected and leave the parcel as it was.
C5_BlockedParcelFrozen ==
  [][\A id \in Stored :
       \A op \in {"updateParcel", "updateParcelStatus", "cancelParcel",
                  "confirmDelivery", "assignDeliveryPersonnel"} :
         (CalledOn(op, id) /\ parcels[id].isBlocked)
         => last'.error # OK /\ parcels' = parcels]_vars

\* C6: every stored parcel's currentStatus is the status of the last entry
\* of its statusHistory.
C6_StatusMatchesHistory ==
  \A id \in Stored :
     /\ Len(parcels[id].statusHistory) >= 1
     /\ parcels[id].currentStatus
          = parcels[id].statusHistory[Len(parcels[id].statusHistory)].status

\* a parcel that has left REQUESTED was just blocked
C6_Witness ==
  \E id \in Stored :
     /\ last.op = "blockParcel" /\ last.parcelId = id /\ last.error = OK
     /\ parcels[id].currentStatus = IN_TRANSIT

\* C7: a stored parcel's statusHistory has at least one entry, and every call
\* leaves it as it is or appends one entry to it.
C7_HistoryAppendOnly ==
  /\ [](\A id \in Stored : Len(parcels[id].statusHistory) >= 1)
  /\ [][\A id \in Stored \cap DOMAIN parcels' :
          LET old == parcels[id].statusHistory
              new == parcels'[id].statusHistory
          IN \/ new = old
             \/ /\ Len(new) = Len(old) + 1
                /\ SubSeq(new, 1, Len(old)) = old]_vars

\* a parcel with a history of three entries was just cancelled by its sender
C7_Witness ==
  \E id \in Stored :
     /\ last.op = "cancelParcel" /\ last.parcelId = id /\ last.error = OK
     /\ Len(parcels[id].statusHistory) = 3

\* C8: the parcel a successful createParcel stores is REQUESTED, not blocked,
\* not cancelled, and its history is the one entry REQUESTED by the sender
\* with the note "Parcel request created"; no stored parcel has an empty
\* history.
C8_CreatedParcelSeeded ==
  /\ [](\A id \in Stored : parcels[id].statusHistory # <<>>)
  /\ [][(Called("createParcel") /\ last'.error = OK)
        => LET id == last'.parcelId
           IN /\ id \notin Stored
              /\ DOMAIN parcels' = Stored \cup {id}
              /\ parcels'[id].currentStatus = REQUESTED
              /\ ~parcels'[id].isBlocked
              /\ ~parcels'[id].isCancelled
              /\ parcels'[id].sender = last'.actor
              /\ parcels'[id].statusHistory
                   = <<[status |-> REQUESTED, updatedBy |-> last'.actor,
                        location |-> NoValue,
                        note |-> <<"Parcel request created">>]>>]_vars

\* createParcel has just stored a parcel
C8_Witness ==
  /\ last.op = "createParcel" /\ last.error = OK
  /\ last.parcelId \in Stored
  /\ Len(parcels[last.parcelId].statusHistory) = 1

\* C9: createParcel fails with not-found for an actor that is no user, with
\* forbidden for a user that is no sender or is blocked, and then the stored
\* parcels are unchanged; it stores a parcel only for an unblocked sender.
C9_CreateRequiresActiveSender ==
  [][Called("createParcel")
     => LET a == last'.actor
        IN /\ a \notin UserIds
                => last'.error = NOT_FOUND /\ parcels' = parcels
           /\ (a \in UserIds /\ (User[a].role # "sender" \/ User[a].isBlocked))
                => last'.error = FORBIDDEN /\ parcels' = parcels
           /\ last'.error # OK => parcels' = parcels
           /\ parcels' # parcels
                => /\ a \in UserIds
                   /\ User[a].role = "sender"
                   /\ ~User[a].isBlocked]_vars

\* a blocked sender was just refused while a parcel is stored
C9_Witness ==
  /\ last.op = "createParcel" /\ last.actor = "sb"
  /\ last.error = FORBIDDEN
  /\ Stored # {}

\* C10: no two stored parcels have the same trackingId, however the
\* createParcel calls interleave; an insert of a stored trackingId is refused
\* by the unique index and adds no parcel.
C10_TrackingIdUnique ==
  /\ [](\A a, b \in Stored :
          parcels[a].trackingId = parcels[b].trackingId => a = b)
  /\ [][\A p \in Procs :
          (/\ calls[p].pc = "insert"
           /\ calls'[p].pc = "idle"
           /\ \E id \in Stored : parcels[id].trackingId = calls[p].trackingId)
          => parcels' = parcels /\ last'.error = DUPLICATE_KEY]_vars

\* an insert was just refused by the unique index
C10_Witness ==
  /\ last.op = "createParcel" /\ last.error = DUPLICATE_KEY
  /\ Stored # {}


\* the step is a store step of the createParcel call p
LookupStep(p) == calls[p].pc = "lookup" /\ calls'[p] # calls[p]

\* C11: the tracking-id loop of createParcel makes at most 10 lookups: every
\* lookup counts one attempt, a lookup that finds its candidate absent ends
\* the loop with that very candidate, a lookup that finds it stored draws a
\* new candidate to look up, and the tenth colliding lookup ends the call with
\* an internal error; no lookup writes the store, and the insert stores the
\* parcel under the candidate the last lookup found absent.
C11_TrackingLoopBounded ==
  /\ [](\A p \in Procs :
          /\ calls[p].attempts <= 10
          /\ calls[p].pc = "insert"
               => calls[p].isUnique /\ calls[p].attempts \in 1..10)
  /\ [][\A p \in Procs :
          LET c == calls[p]
              collides == findByTrackingId(c.trackingId) # {}
          IN /\ LookupStep(p)
                  => /\ parcels' = parcels
                     /\ calls'[p].pc \in {"lookup", "insert", "idle"}
                     /\ calls'[p].pc = "insert"
                          => /\ ~collides
                             /\ calls'[p].trackingId = c.trackingId
                             /\ calls'[p].attempts = c.attempts + 1
                     /\ calls'[p].pc = "lookup"
                          => /\ collides
                             /\ calls'[p].attempts = c.attempts + 1
                     /\ calls'[p].pc = "idle"
                          => /\ collides
                             /\ c.attempts = 9
                             /\ last'.op = "createParcel"
                             /\ last'.error = INTERNAL_SERVER_ERROR
             /\ (c.pc = "insert" /\ calls'[p].pc = "idle" /\ last'.error = OK)
                  => /\ DOMAIN parcels' = Stored \cup {nextId}
                     /\ parcels'[nextId].trackingId = c.trackingId]_vars

\* a createParcel call has just given up after ten colliding lookups
C11_Witness ==
  /\ last.op = "createParcel" /\ last.error = INTERNAL_SERVER_ERROR
  /\ Stored # {}


\* the step appends exactly one entry to the history of the stored parcel id
AppendsOne(id) ==
  /\ id \in DOMAIN parcels'
  /\ Len(parcels'[id].statusHistory) = Len(parcels[id].statusHistory) + 1
  /\ SubSeq(parcels'[id].statusHistory, 1, Len(parcels[id].statusHistory))
       = parcels[id].statusHistory

\* the last history entry of the parcel id after the step
Appended(id) == parcels'[id].statusHistory[Len(parcels'[id].statusHistory)]

\* C12: cancelParcel on a stored parcel succeeds exactly when the actor is the
\* parcel's sender, currentStatus is REQUESTED or APPROVED and isCancelled is
\* false; then currentStatus becomes CANCELLED, isCancelled true, and one
\* history entry is appended with status CANCELLED, updatedBy the sender and
\* the given reason as note, or "Cancelled by sender" without a reason;
\* otherwise the call fails and the store is unchanged.
C12_CancelParcel ==
  [][\A id \in Stored :
       CalledOn("cancelParcel", id)
       => LET parcel == parcels[id]
              may == /\ parcel.sender = last'.actor
                     /\ parcel.currentStatus \in {REQUESTED, APPROVED}
                     /\ ~parcel.isCancelled
          IN /\ (last'.error = OK) <=> may
             /\ may => /\ AppendsOne(id)
                       /\ parcels'[id].currentStatus = CANCELLED
                       /\ parcels'[id].isCancelled
                       /\ Appended(id).status = CANCELLED
                       /\ Appended(id).updatedBy = parcel.sender
                       /\ Appended(id).note
                            = IF last'.note # NoNote THEN last'.note
                              ELSE <<"Cancelled by sender">>
             /\ ~may => parcels' = parcels]_vars

\* the sender has just cancelled an approved parcel without giving a reason
C12_Witness ==
  \E id \in Stored :
     /\ last.op = "cancelParcel" /\ last.parcelId = id /\ last.error = OK
     /\ last.note = NoNote
     /\ Len(parcels[id].statusHistory) >= 3
     /\ parcels[id].statusHistory[Len(parcels[id].statusHistory)].note
          = <<"Cancelled by sender">>

\* C13: a cancelParcel by the sender on a parcel that is already cancelled
\* fails with an error and leaves currentStatus, isCancelled and statusHistory
\* as the first cancellation left them.
C13_CancelTwiceFails ==
  [][\A id \in Stored :
       (/\ CalledOn("cancelParcel", id)
        /\ parcels[id].isCancelled
        /\ parcels[id].sender = last'.actor)
       => /\ last'.error = BAD_REQUEST
          /\ id \in DOMAIN parcels'
          /\ parcels'[id].currentStatus = parcels[id].currentStatus
          /\ parcels'[id].isCancelled
          /\ parcels'[id].statusHistory = parcels[id].statusHistory]_vars

\* the sender, having cancelled the parcel, was just refused a second cancel
C13_Witness ==
  \E id \in Stored :
     /\ last.op = "cancelParcel" /\ last.parcelId = id
     /\ last.actor = parcels[id].sender
     /\ last.error = BAD_REQUEST
     /\ parcels[id].isCancelled
     /\ LET e == parcels[id].statusHistory[Len(parcels[id].statusHistory)]
        IN e.status = CANCELLED /\ e.updatedBy = parcels[id].sender

\* C14: confirmDelivery on a stored parcel succeeds exactly when the given
\* email is the parcel's receiver.email and currentStatus is OUT_FOR_DELIVERY;
\* then currentStatus becomes DELIVERED and one history entry with status
\* DELIVERED is appended; with another email it fails with forbidden, with
\* the receiver's email and another status with a bad-request error, and in
\* both cases the store is unchanged.
C14_ConfirmDelivery ==
  [][\A id \in Stored :
       CalledOn("confirmDelivery", id)
       => LET parcel == parcels[id]
              mine == parcel.receiver.email = last'.actor
              out == parcel.currentStatus = OUT_FOR_DELIVERY
          IN /\ (last'.error = OK) <=> (mine /\ out)
             /\ (mine /\ out)
                  => /\ AppendsOne(id)
                     /\ parcels'[id].currentStatus = DELIVERED
                     /\ Appended(id).status = DELIVERED
             /\ ~mine => last'.error = FORBIDDEN /\ parcels' = parcels
             /\ (mine /\ ~out)
                  => last'.error = BAD_REQUEST /\ parcels' = parcels]_vars

\* the receiver was just refused for a parcel that is still in transit
C14_Witness ==
  \E id \in Stored :
     /\ last.op = "confirmDelivery" /\ last.parcelId = id
     /\ last.actor = parcels[id].receiver.email
     /\ last.error = BAD_REQUEST
     /\ parcels[id].currentStatus = IN_TRANSIT

\* C15: the DELIVERED entry a successful confirmDelivery appends has, for an
\* email of no registered user, the placeholder id as updatedBy and a note
\* that contains the email and ends with the caller's note when one is given;
\* for the email of a registered user, that user's id as updatedBy and the
\* caller's note, or "Delivery confirmed by receiver" without one.
C15_DeliveryEntry ==
  [][\A id \in Stored :
       (CalledOn("confirmDelivery", id) /\ last'.error = OK)
       => LET email == last'.actor
              note == last'.note
              e == Appended(id)
              registered == {u \in UserIds : User[u].email = email}
          IN /\ AppendsOne(id)
             /\ registered = {}
                  => /\ e.updatedBy = PlaceholderId
                     /\ email \in Range(e.note)
                     /\ note # NoNote
                          => /\ Len(e.note) > Len(note)
                             /\ SubSeq(e.note, Len(e.note) - Len(note) + 1,
                                       Len(e.note)) = note
                     /\ note = NoNote => e.note[Len(e.note)] = email
             /\ registered # {}
                  => /\ e.updatedBy \in registered
                     /\ e.note = IF note # NoNote THEN note
                                 ELSE <<"Delivery confirmed by receiver">>]_vars

\* a receiver who is no registered user has just confirmed with a note
C15_Witness ==
  \E id \in Stored :
     /\ last.op = "confirmDelivery" /\ last.parcelId = id /\ last.error = OK
     /\ last.actor = "r@x.com" /\ last.note # NoNote
     /\ parcels[id].statusHistory[Len(parcels[id].statusHistory)].updatedBy
          = PlaceholderId


\* the calls that write a history entry when they succeed
LoggingOps ==
  {"updateParcelStatus", "cancelParcel", "confirmDelivery", "blockParcel"}

\* C16: the statusHistory of a stored parcel has one entry when the parcel is
\* created and grows by exactly one entry with every successful
\* updateParcelStatus, cancelParcel, confirmDelivery and blockParcel on it;
\* every other step (a failed call, updateParcel, assignDeliveryPersonnel, a
\* call on another parcel) leaves its length as it is.  So its length is 1
\* plus the number of those successful calls.
C16_HistoryCountsCalls ==
  [][/\ \A id \in DOMAIN parcels' \ Stored :
          Len(parcels'[id].statusHistory) = 1
     /\ \A id \in Stored \cap DOMAIN parcels' :
          LET logged == /\ last'.op \in LoggingOps
                        /\ last'.parcelId = id
                        /\ last'.error = OK
                        /\ parcels' # parcels
          IN Len(parcels'[id].statusHistory)
               = Len(parcels[id].statusHistory) + (IF logged THEN 1 ELSE 0)]_vars

\* created, approved, picked up, in transit, out for delivery and then
\* confirmed by the receiver: the parcel is DELIVERED with six history entries
C16_Witness ==
  \E id \in Stored :
     /\ last.op = "confirmDelivery" /\ last.parcelId = id /\ last.error = OK
     /\ parcels[id].currentStatus = DELIVERED
     /\ Len(parcels[id].statusHistory) = 6
     /\ [i \in 1..6 |-> parcels[id].statusHistory[i].status]
          = <<REQUESTED, APPROVED, PICKED_UP, IN_TRANSIT, OUT_FOR_DELIVERY,
              DELIVERED>>
     /\ parcels[id].statusHistory[6].updatedBy \in {"rc", PlaceholderId}
     /\ \A i \in 2..5 : parcels[id].statusHistory[i].updatedBy = "ad"


\* C17: updateParcel on a stored parcel succeeds only when the actor is the
\* parcel's sender, currentStatus is REQUESTED or APPROVED and the parcel is
\* neither blocked nor cancelled; otherwise it fails, with forbidden for
\* another user and a bad-request error in the other cases, and the store is
\* unchanged.
C17_UpdateParcelGuards ==
  [][\A id \in Stored :
       CalledOn("updateParcel", id)
       => LET parcel == parcels[id]
              mine == parcel.sender = last'.actor
              may == /\ mine
                     /\ parcel.currentStatus \in {REQUESTED, APPROVED}
                     /\ ~parcel.isBlocked
                     /\ ~parcel.isCancelled
          IN /\ last'.error = OK => may
             /\ ~may => /\ last'.error = IF mine THEN BAD_REQUEST ELSE FORBIDDEN
                        /\ parcels' = parcels
             /\ last'.error # OK => parcels' = parcels]_vars

\* the sender was just refused the update of their blocked, approved parcel
C17_Witness ==
  \E id \in Stored :
     /\ last.op = "updateParcel" /\ last.parcelId = id
     /\ last.actor = parcels[id].sender
     /\ last.error = BAD_REQUEST
     /\ parcels[id].isBlocked
     /\ parcels[id].currentStatus = APPROVED

\* the urgency multipliers of the fee calculator
Multiplier2(urgency) ==
  CASE urgency = "standard" -> 2
    [] urgency = "express" -> 3
    [] urgency = "urgent" -> 4

\* C18: the pricing of every stored parcel agrees with its stored weight and
\* urgency: weightFee is 10 per kilogram of parcelDetails.weight, urgencyFee
\* is 50 x (multiplier of deliveryInfo.urgency - 1), and totalFee is
\* 50 + weightFee + urgencyFee - discount, or 0 when that is negative.
C18_PricingMatchesFields ==
  \A id \in Stored :
     LET parcel == parcels[id]
         pricing == parcel.pricing
     IN /\ pricing.weightFee * 10 = 10 * parcel.parcelDetails.weight
        /\ pricing.urgencyFee * 2
             = 50 * (Multiplier2(parcel.deliveryInfo.urgency) - 2)
        /\ pricing.totalFee
             = IF 50 + pricing.weightFee + pricing.urgencyFee
                    - pricing.discount > 0
               THEN 50 + pricing.weightFee + pricing.urgencyFee
                    - pricing.discount
               ELSE 0

C20_FeeFormula ==
  last.op = "calculateParcelFee"
  => LET arg == last.input
         pricing == last.pricing
         subtotal == pricing.baseFee + pricing.weightFee + pricing.urgencyFee
     IN /\ pricing.baseFee = 50
        /\ pricing.weightFee * 10 = 10 * arg.weight
        /\ pricing.urgencyFee = CASE arg.urgency = "standard" -> 0
                                  [] arg.urgency = "express" -> 25
                                  [] arg.urgency = "urgent" -> 50
        /\ pricing.totalFee = IF subtotal - arg.discount > 0
                              THEN subtotal - arg.discount ELSE 0
        /\ pricing.totalFee >= 0
        /\ (arg.weight = 20 /\ arg.urgency = "express" /\ arg.discount = 0)
             => pricing.totalFee = 95
        /\ (arg.weight = 10 /\ arg.urgency = "standard" /\ arg.discount = 0)
             => pricing.totalFee = 60

\* the fee of a light parcel with a discount larger than its subtotal
C20_Witness ==
  /\ last.op = "calculateParcelFee"
  /\ last.input.weight = 20 /\ last.input.urgency = "express"
  /\ last.input.discount = 600
  /\ last.pricing.totalFee = 0


\* the messages of the rules a weight (in tenths of a kilogram) and an
\* urgency violate, in the order of the rules
ViolatedRules(weight, urgency) ==
  (IF weight <= 0 THEN <<"Weight must be greater than 0">> ELSE <<>>)
  \o (IF weight > MaxWeight THEN <<"Weight cannot exceed 50kg">> ELSE <<>>)
  \o (IF urgency \notin {"standard", "express", "urgent"}
      THEN <<"Invalid urgency level">> ELSE <<>>)

\* C21: validateFeeCalculationInput returns one message per violated rule
\* (weight <= 0, weight > 50 kg, urgency outside standard/express/urgent) and
\* isValid exactly when there is none: 0.1 kg and 50 kg are accepted, 0 kg,
\* 51 kg and "overnight" are rejected.  A createParcel of an unblocked sender
\* with invalid data fails with a bad-request error carrying all the messages
\* and starts no insert, and a call goes on to its lookups with valid data
\* only.
C21_FeeValidation ==
  /\ [](last.op = "validateFeeCalculationInput"
        => LET arg == last.input
               result == last.result
           IN /\ result.errors = ViolatedRules(arg.weight, arg.urgency)
              /\ result.isValid <=> result.errors = <<>>
              /\ result.isValid
                   <=> /\ arg.weight > 0 /\ arg.weight <= MaxWeight
                       /\ arg.urgency \in {"standard", "express", "urgent"}
              /\ arg.weight \in {0, 510} => ~result.isValid
              /\ arg.urgency = "overnight" => ~result.isValid
              /\ (arg.weight \in {1, 500} /\ arg.urgency = "standard")
                   => result.isValid)
  /\ [][\A senderId \in ActorIds, parcelData \in ParcelDatas :
          LET rules == ViolatedRules(parcelData.parcelDetails.weight,
                                     parcelData.deliveryInfo.urgency)
          IN (/\ createParcelBegin("p1", senderId, parcelData)
              /\ senderId \in UserIds
              /\ User[senderId].role = "sender"
              /\ ~User[senderId].isBlocked)
             => IF rules # <<>>
                THEN /\ last'.op = "createParcel"
                     /\ last'.error = BAD_REQUEST
                     /\ last'.message = rules
                     /\ parcels' = parcels
                     /\ calls' = calls
                ELSE /\ calls'["p1"].pc = "lookup"
                     /\ parcels' = parcels]_vars
  /\ [](\A p \in Procs :
          calls[p].pc # "idle"
          => ViolatedRules(calls[p].parcelDetails.weight,
                           calls[p].deliveryInfo.urgency) = <<>>)

\* a createParcel with weight 0 and urgency "overnight" was just refused with
\* both messages
C21_Witness ==
  /\ last.op = "createParcel" /\ last.error = BAD_REQUEST
  /\ last.message = <<"Weight must be greater than 0", "Invalid urgency level">>


\* the characters 0 to 9
IsDigit(ch) == ch \in {"0", "1", "2", "3", "4", "5", "6", "7", "8", "9"}

\* TRK-, 8 digits, -, 6 digits, and nothing else
HasTrackingForm(str) ==
  /\ Len(str) = 19
  /\ SubSeq(str, 1, 4) = <<"T", "R", "K", "-">>
  /\ \A i \in 5..12 : IsDigit(str[i])
  /\ str[13] = "-"
  /\ \A i \in 14..19 : IsDigit(str[i])

\* C22: every string generateTrackingId returns is TRK-, 8 digits, -, 6
\* digits, the 6-digit part being a number from 100000 to 999999 (its first
\* digit is not 0), and isValidTrackingId accepts it; isValidTrackingId
\* accepts a string exactly when it has that form.
C22_TrackingIdFormat ==
  /\ last.op = "generateTrackingId"
       => /\ HasTrackingForm(last.result)
          /\ last.result[14] # "0"
          /\ isValidTrackingId(last.result)
  /\ last.op = "isValidTrackingId"
       => (last.result <=> HasTrackingForm(last.input))

\* an id generated on the 9th of September was just found valid
C22_Witness ==
  /\ last.op = "isValidTrackingId"
  /\ last.result
  /\ SubSeq(last.input, 9, 12) = <<"0", "9", "0", "9">>


ListingOps == {"getAllParcels", "getSenderParcels", "getReceiverParcels"}

\* the number a raw page or limit of the listed queries stands for
Given(query, key, default) ==
  IF key \notin DOMAIN query THEN default
  ELSE CASE query[key] = <<"3">> -> 3
         [] query[key] = <<"7">> -> 7
         [] query[key] = <<"1", "0">> -> 10

\* the parcel is in the caller's scope: sent by the calling sender, or
\* addressed to the calling receiver
InScope(op, actor, doc) ==
  CASE op = "getSenderParcels" -> doc.sender = actor
    [] op = "getReceiverParcels" -> doc.receiver.email = actor
    [] OTHER -> TRUE

\* the search term of the listed queries, "aNn", occurs in no tracking id or
\* email and in the name Ann, which the receiver listing does not search
SearchHolds(op, query, doc) ==
  "searchTerm" \in DOMAIN query
  => (op # "getReceiverParcels" /\ doc.receiver.name = "Ann")

\* the exact-match filters of the raw query hold
FiltersHold(query, doc) ==
  /\ "sender" \in DOMAIN query => doc.sender = query["sender"]
  /\ "receiver.email" \in DOMAIN query
       => doc.receiver.email = query["receiver.email"]

\* the field the scope of a listing is on
ScopeField(op) ==
  CASE op = "getSenderParcels" -> "sender"
    [] op = "getReceiverParcels" -> "receiver.email"
    [] OTHER -> NoValue

\* the records the page query of the last listing matches: those in the
\* scope, unless the raw query carries the scope field itself, that satisfy
\* the search and the filters
PageMatches ==
  {id \in Stored :
     /\ ScopeField(last.op) \notin DOMAIN last.query
          => InScope(last.op, last.actor, parcels[id])
     /\ SearchHolds(last.op, last.query, parcels[id])
     /\ FiltersHold(last.query, parcels[id])}

\* C23: with N records matching, limit L and page P, a listing returns the
\* records at positions (P-1)L+1 to min(PL, N) of the matching records in
\* sort order (latest first by default), none when (P-1)L >= N, and
\* meta.totalPage is ceil(N / L); 25 records with limit 10 and page 3 give
\* records 21 to 25 and totalPage 3.
C23_Pagination ==
  last.op \in ListingOps
  => LET L == Given(last.query, "limit", 10)
         P == Given(last.query, "page", 1)
         N == Cardinality(PageMatches)
         upto == IF P * L < N THEN P * L ELSE N
         before(a, b) == IF "sort" \in DOMAIN last.query THEN a < b ELSE a > b
         page == last.parcels
     IN /\ Len(page) = IF (P - 1) * L >= N THEN 0 ELSE upto - (P - 1) * L
        /\ \A j \in 1..Len(page) :
             /\ page[j] \in PageMatches
             /\ Cardinality({m \in PageMatches : before(m, page[j])})
                  = (P - 1) * L + j - 1
        /\ last.meta.totalPage * L >= N
        /\ (last.meta.totalPage - 1) * L < N \/ (N = 0 /\ last.meta.totalPage = 0)
        /\ (N = 25 /\ L = 10 /\ P = 3)
             => /\ last.meta.totalPage = 3
                /\ Len(page) = 5
                /\ "sort" \notin DOMAIN last.query => page = <<5, 4, 3, 2, 1>>

\* the third page of ten of the admin's listing of 25 parcels
C23_Witness ==
  /\ last.op = "getAllParcels"
  /\ last.query = ("page" :> <<"3">>) @@ ("limit" :> <<"1", "0">>)
  /\ Cardinality(Stored) = 25
  /\ last.parcels = <<5, 4, 3, 2, 1>>
  /\ last.meta.totalPage = 3

\* the records that satisfy the caller's scope, the search and the filters
ClaimedMatches ==
  {id \in Stored :
     /\ InScope(last.op, last.actor, parcels[id])
     /\ SearchHolds(last.op, last.query, parcels[id])
     /\ FiltersHold(last.query, parcels[id])}

\* C24: meta.total of a listing is the number of records that satisfy the
\* caller's scope filter, the search and the exact-match filters together,
\* whatever page, limit and sort are, and the returned page is a subset of
\* those records.
C24_TotalCountsMatches ==
  last.op \in ListingOps
  => /\ last.meta.total = Cardinality(ClaimedMatches)
     /\ \A j \in 1..Len(last.parcels) : last.parcels[j] \in ClaimedMatches

\* C25: whatever the raw query carries, getSenderParcels returns only parcels
\* sent by the calling sender and getReceiverParcels only parcels addressed
\* to the calling receiver's email, and meta.total counts no other parcel.
C25_ScopeNotWidened ==
  last.op \in {"getSenderParcels", "getReceiverParcels"}
  => LET scope == {id \in Stored : InScope(last.op, last.actor, parcels[id])}
     IN /\ \A j \in 1..Len(last.parcels) : last.parcels[j] \in scope
        /\ last.meta.total <= Cardinality(scope)
        /\ last.meta.total
             = Cardinality({id \in scope :
                              /\ SearchHolds(last.op, last.query, parcels[id])
                              /\ FiltersHold(last.query, parcels[id])})


\* C26: getParcelById returns the parcel to its sender, to a registered user
\* whose email is the receiver's, and to an admin, and fails with forbidden
\* for every other actor; it fails with not-found when no parcel has the id,
\* and it never changes the store.
C26_GetParcelById ==
  [][Called("getParcelById")
     => LET id == last'.parcelId
            actor == last'.actor
        IN /\ parcels' = parcels /\ nextId' = nextId
           /\ id \notin Stored => last'.error = NOT_FOUND
           /\ id \in Stored
                => LET allowed ==
                         \/ parcels[id].sender = actor
                         \/ /\ actor \in UserIds
                            /\ User[actor].email = parcels[id].receiver.email
                         \/ TokenRole(actor) = "admin"
                   IN last'.error = IF allowed THEN OK ELSE FORBIDDEN]_vars

\* the ids whose parcel was deleted: given out and no longer stored
DeletedIds == (1..(nextId - 1)) \ Stored

WriteOps ==
  {"updateParcel", "updateParcelStatus", "cancelParcel", "confirmDelivery",
   "blockParcel", "assignDeliveryPersonnel"}

\* C28: deleteParcel fails with not-found on an id of no parcel and changes
\* nothing; on success it removes that parcel and no other; a deleted parcel
\* never comes back, every later read, update, status update, cancellation,
\* confirmation, block, assignment and delete on its id fails with not-found
\* and changes nothing, and the lookup by tracking id returns stored parcels
\* only and fails with not-found when no stored parcel has the tracking id.
C28_DeleteParcel ==
  [][/\ Called("deleteParcel")
          => IF last'.parcelId \in Stored
             THEN /\ last'.error = OK
                  /\ parcels' = [id \in Stored \ {last'.parcelId} |-> parcels[id]]
             ELSE last'.error = NOT_FOUND /\ parcels' = parcels
     /\ DeletedIds \cap DOMAIN parcels' = {}
     /\ \A op \in WriteOps \cup {"getParcelById", "deleteParcel"} :
          (Called(op) /\ last'.parcelId \in DeletedIds)
            => last'.error = NOT_FOUND /\ parcels' = parcels
     /\ Called("trackParcelByTrackingId")
          => /\ parcels' = parcels
             /\ IF \E id \in Stored : parcels[id].trackingId = last'.trackingId
                THEN /\ last'.error = OK
                     /\ last'.parcelId \in Stored
                     /\ parcels[last'.parcelId].trackingId = last'.trackingId
                ELSE last'.error = NOT_FOUND]_vars

\* a parcel was deleted while another is stored, and reading it by its id
\* fails with not-found
C28_Witness ==
  /\ Stored # {}
  /\ last.op = "getParcelById"
  /\ last.parcelId \in DeletedIds
  /\ last.error = NOT_FOUND


\* the history without the entries blockParcel wrote
RECURSIVE WithoutBlockLogs(_)
WithoutBlockLogs(history) ==
  IF history = <<>> THEN <<>>
  ELSE IF IsBlockLog(history[1]) THEN WithoutBlockLogs(Tail(history))
  ELSE <<history[1]>> \o WithoutBlockLogs(Tail(history))

\* the notes of the entries blockParcel wrote, in order
RECURSIVE BlockNotes(_)
BlockNotes(history) ==
  IF history = <<>> THEN <<>>
  ELSE IF IsBlockLog(history[1])
       THEN <<history[1].note[2]>> \o BlockNotes(Tail(history))
       ELSE BlockNotes(Tail(history))

\* parcel 1 was blocked and then unblocked, and parcel 2 is what parcel 1
\* would be without that: the same document but for the tracking id and the
\* two entries of the block and the unblock
BlockedAndUnblocked ==
  /\ {1, 2} \subseteq Stored
  /\ BlockNotes(parcels[1].statusHistory) = <<"blocked", "unblocked">>
  /\ [parcels[1] EXCEPT
        !.statusHistory = WithoutBlockLogs(@),
        !.trackingId = parcels[2].trackingId] = parcels[2]

\* the calls that succeed on parcel 1 are the calls that succeed on parcel 2
SameCallsSucceed ==
  /\ \A senderId \in {"s1", "sb"}, updateData \in UpdateDatas :
       (ENABLED (updateParcel(1, senderId, updateData) /\ last'.error = OK))
       <=> (ENABLED (updateParcel(2, senderId, updateData) /\ last'.error = OK))
  /\ \A statusUpdate \in StatusUpdates :
       (ENABLED (updateParcelStatus(1, "ad", statusUpdate) /\ last'.error = OK))
       <=> (ENABLED (updateParcelStatus(2, "ad", statusUpdate)
                       /\ last'.error = OK))
  /\ \A senderId \in {"s1", "sb"} :
       (ENABLED (cancelParcel(1, senderId, NoNote) /\ last'.error = OK))
       <=> (ENABLED (cancelParcel(2, senderId, NoNote) /\ last'.error = OK))
  /\ \A receiverEmail \in Emails :
       (ENABLED (confirmDelivery(1, receiverEmail, NoNote) /\ last'.error = OK))
       <=> (ENABLED (confirmDelivery(2, receiverEmail, NoNote)
                       /\ last'.error = OK))
  /\ \A isBlocked \in BOOLEAN :
       (ENABLED (blockParcel(1, "ad", isBlocked, NoNote) /\ last'.error = OK))
       <=> (ENABLED (blockParcel(2, "ad", isBlocked, NoNote)
                       /\ last'.error = OK))
  /\ (ENABLED (assignDeliveryPersonnel(1, "rc") /\ last'.error = OK))
       <=> (ENABLED (assignDeliveryPersonnel(2, "rc") /\ last'.error = OK))
  /\ (ENABLED (deleteParcel(1) /\ last'.error = OK))
       <=> (ENABLED (deleteParcel(2) /\ last'.error = OK))
  /\ \A userId \in ActorIds :
       (ENABLED (getParcelById(1, userId, TokenRole(userId))
                   /\ last'.error = OK))
       <=> (ENABLED (getParcelById(2, userId, TokenRole(userId))
                       /\ last'.error = OK))

CountIn(statuses) ==
  Cardinality({id \in Stored : parcels[id].currentStatus \in statuses})

\* C29: getParcelStats returns for each of the nine statuses the number of
\* stored parcels in it, totalParcels as the number of stored parcels,
\* deliveredParcels = delivered, inTransitParcels = in_transit +
\* out_for_delivery + picked_up, pendingParcels = requested + approved,
\* cancelledParcels = cancelled + returned + failed_delivery, and the four
\* derived counts add up to totalParcels.
C29_ParcelStats ==
  last.op = "getParcelStats"
  => LET stats == last.stats
     IN /\ DOMAIN stats.statusBreakdown = ParcelStatus
        /\ Cardinality(ParcelStatus) = 9
        /\ \A s \in ParcelStatus : stats.statusBreakdown[s] = CountIn({s})
        /\ stats.totalParcels = Cardinality(Stored)
        /\ stats.deliveredParcels = CountIn({DELIVERED})
        /\ stats.inTransitParcels
             = CountIn({IN_TRANSIT, OUT_FOR_DELIVERY, PICKED_UP})
        /\ stats.pendingParcels = CountIn({REQUESTED, APPROVED})
        /\ stats.cancelledParcels
             = CountIn({CANCELLED, RETURNED, FAILED_DELIVERY})
        /\ stats.totalParcels
             = stats.deliveredParcels + stats.inTransitParcels
               + stats.pendingParcels + stats.cancelledParcels

\* the statistics of one delivered and one picked-up parcel
C29_Witness ==
  /\ last.op = "getParcelStats"
  /\ last.stats.totalParcels = 2
  /\ last.stats.deliveredParcels = 1
  /\ last.stats.inTransitParcels = 1
  /\ last.stats.statusBreakdown[PICKED_UP] = 1
  /\ last.stats.pendingParcels = 0

\* C30: the average delivery time is the mean over the delivered parcels of
\* the time from creation to delivery and N/A exactly when no parcel is
\* delivered; blockParcel and assignDeliveryPersonnel on a delivered parcel
\* do not change it.
C30_AverageDeliveryTime ==
  [][/\ averageDeliveryTime.text = "N/A" <=> CountIn({DELIVERED}) = 0
     /\ \A id \in Stored :
          \* the parcel is delivered in this step and is the only one
          (/\ parcels[id].currentStatus # DELIVERED
           /\ id \in DOMAIN parcels'
           /\ parcels'[id].currentStatus = DELIVERED
           /\ CountIn({DELIVERED}) = 0)
            => averageDeliveryTime'
                 = [text |-> "days",
                    tenths |-> 10 * (parcels'[id].updatedAt
                                       - parcels[id].createdAt)]
     /\ ((Called("blockParcel") \/ Called("assignDeliveryPersonnel"))
          /\ last'.parcelId \in Stored
          /\ parcels[last'.parcelId].currentStatus = DELIVERED)
            => averageDeliveryTime' = averageDeliveryTime]_vars


\* C31: the receiver's delivery history returns exactly the stored parcels
\* addressed to the calling receiver's email whose currentStatus is
\* DELIVERED (a page of them), and meta.total is the number of such parcels.
C31_DeliveryHistory ==
  last.op = "getDeliveryHistory"
  => LET delivered ==
           {id \in Stored :
              /\ parcels[id].receiver.email = last.actor
              /\ parcels[id].currentStatus = DELIVERED}
     IN /\ last.meta.total = Cardinality(delivered)
        /\ Range(last.parcels) = delivered


\* the step is the write of a call of op on the stored parcel id
Wrote(op, id) ==
  /\ last'.op = op
  /\ last'.parcelId = id
  /\ id \in Stored
  /\ \E p \in Procs : calls[p].pc = "write" /\ calls'[p].pc = "idle"
                      /\ calls[p].op = op

\* C32: when status-changing calls on one parcel interleave between their
\* read and their write, every change of the stored currentStatus is a
\* transition the table allows from the status stored at the moment of the
\* write, and a parcel stored as delivered or cancelled keeps its status.
C32_RaceTransitions ==
  [][\A id \in Stored \cap DOMAIN parcels' :
       parcels'[id].currentStatus # parcels[id].currentStatus
         => /\ parcels'[id].currentStatus
                 \in allowedTransitions[parcels[id].currentStatus]
            /\ parcels[id].currentStatus \notin Terminal]_vars

\* C33: when blockParcel interleaves with a status-changing call on the same
\* parcel, then once no call is in flight the parcel's currentStatus is the
\* status of its last history entry.
C33_RaceBlockEntry ==
  NoCallInFlight
  => \A id \in Stored :
       parcels[id].statusHistory[Len(parcels[id].statusHistory)].status
         = parcels[id].currentStatus

\* C34: in every reachable state, those reached by interleaved cancelParcel
\* and updateParcelStatus calls included, isCancelled is true exactly when
\* currentStatus is cancelled.
C34_RaceCancelledFlag ==
  \A id \in Stored :
     parcels[id].isCancelled <=> parcels[id].currentStatus = CANCELLED

\* C35: under any interleaving with updateParcelStatus and blockParcel, the
\* write of updateParcel never lands on a parcel whose stored status is
\* outside requested and approved or whose stored isBlocked is true.
C35_RaceUpdateGuards ==
  [][\A id \in Stored :
       Wrote("updateParcel", id)
         => /\ parcels[id].currentStatus \in {REQUESTED, APPROVED}
            /\ ~parcels[id].isBlocked]_vars

\* C36: when updateParcel calls on one parcel interleave, then once no call
\* is in flight the stored urgencyFee is 50 x (multiplier of the stored
\* urgency - 1), and a call that recomputed nothing leaves the stored
\* pricing as it is.
C36_RacePricing ==
  [][/\ \A id \in Stored :
          (/\ Wrote("updateParcel", id)
           /\ "parcelDetails" \notin DOMAIN last'.update.leaves
           /\ "deliveryInfo" \notin DOMAIN last'.update.leaves)
            => parcels'[id].pricing = parcels[id].pricing
     /\ NoCallInFlight'
          => \A id \in DOMAIN parcels' :
               2 * parcels'[id].pricing.urgencyFee
                 = 50 * (Multiplier2(parcels'[id].deliveryInfo.urgency) - 2)]_vars


\* the raw value is one Number turns into no usable number: absent, empty,
\* "0" or not a string of digits
Defaulted(query, key) ==
  \/ key \notin DOMAIN query
  \/ ~isDigits(query[key])
  \/ Number(query[key]) = 0

\* C37: for every raw page and limit the page and limit used are integers
\* that are not negative, the limit is never 0, the page defaults to 1 and
\* the limit to 10, skip is (page - 1) * limit and never negative, and
\* paginate and getMeta use the same page and limit
C37_PageAndLimit ==
  last.op = "paginate" =>
    LET page == last.meta.page
        limit == last.meta.limit
    IN /\ page \in Nat
       /\ limit \in Nat
       /\ limit # 0
       /\ Defaulted(last.query, "page") => page = 1
       /\ Defaulted(last.query, "limit") => limit = 10
       /\ last.modelQuery.limit = limit
       /\ last.modelQuery.skip = (page - 1) * limit
       /\ last.modelQuery.skip >= 0


\* the document without the two fields assignDeliveryPersonnel writes
WithoutPersonnel(doc) ==
  [k \in DOMAIN doc \ {"deliveryPersonnel", "updatedAt"} |-> doc[k]]

\* C38: assignDeliveryPersonnel fails with not-found and changes nothing when
\* the parcel does not exist or the user id is the id of no user; otherwise it
\* succeeds whatever the status and changes only deliveryPersonnel and
\* updatedAt
C38_AssignPersonnel ==
  [][Called("assignDeliveryPersonnel") =>
       IF last'.parcelId \notin Stored \/ last'.actor \notin UserIds
       THEN /\ last'.error = NOT_FOUND
            /\ parcels' = parcels
       ELSE /\ last'.error = OK
            /\ DOMAIN parcels' = DOMAIN parcels
            /\ parcels'[last'.parcelId].deliveryPersonnel = last'.actor
            /\ \A id \in Stored :
                 WithoutPersonnel(parcels'[id]) = WithoutPersonnel(parcels[id])]_vars


\* the statuses with those the table allows next from them
Successors(statuses) ==
  statuses \cup UNION {allowedTransitions[s] : s \in statuses}

\* the statuses a chain of allowed transitions leads to
RECURSIVE ReachableFrom(_)
ReachableFrom(statuses) ==
  IF Successors(statuses) = statuses THEN statuses
  ELSE ReachableFrom(Successors(statuses))

\* the statuses an updateParcelStatus call by the admin moves the parcel to
Accepted(id) ==
  {status \in ParcelStatus :
     ENABLED (/\ updateParcelStatus(id, "ad",
                   [status |-> status, location |-> NoValue, note |-> NoNote])
              /\ last'.error = OK)}

\* the parcel was returned and is requested again
ReturnedToRequested(doc) ==
  /\ doc.currentStatus = REQUESTED
  /\ \E i \in 1..Len(doc.statusHistory) : doc.statusHistory[i].status = RETURNED

\* C39: the table has no dead end but delivered and cancelled: every other
\* status has a next status, and from it a chain of allowed transitions leads
\* to delivered and one to cancelled; updateParcelStatus on an unblocked
\* parcel succeeds for exactly the statuses the table allows next, so the
\* chains are sequences of calls; and a parcel that was returned and is
\* requested again (and is not blocked) accepts updateParcel and cancelParcel
\* from its sender.
C39_NoDeadEnd ==
  /\ \A s \in ParcelStatus \ Terminal :
       /\ allowedTransitions[s] # {}
       /\ Terminal \subseteq ReachableFrom({s})
  /\ NoCallInFlight =>
       \A id \in Stored :
          /\ ~parcels[id].isBlocked
               => Accepted(id) = allowedTransitions[parcels[id].currentStatus]
          /\ (ReturnedToRequested(parcels[id]) /\ ~parcels[id].isBlocked)
               => /\ \A updateData \in UpdateDatas :
                       ENABLED (/\ updateParcel(id, parcels[id].sender, updateData)
                                /\ last'.error = OK)
                  /\ \A reason \in Reasons :
                       ENABLED (/\ cancelParcel(id, parcels[id].sender, reason)
                                /\ last'.error = OK)

\* a parcel was picked up, returned, requested again and then cancelled by
\* its sender
C39_Witness ==
  /\ last.op = "cancelParcel" /\ last.error = OK /\ last.parcelId \in Stored
  /\ LET history == parcels[last.parcelId].statusHistory
     IN /\ Len(history) = 6
        /\ history[4].status = RETURNED
        /\ history[5].status = REQUESTED
        /\ history[6].status = CANCELLED

====
